---- MODULE Spec2Model ----
(***************************************************************************)
(* State-machine model of the image host's serverless functions:          *)
(*   auth      (src/unnamed/part_000, lines 1-452)                         *)
(*   image     (src/unnamed/part_000, lines 818-1240)                      *)
(*   upload    (src/netlify/functions/upload.mts)                          *)
(*   cleanup   (src/netlify/functions/cleanup-background.mts)              *)
(* All state lives in the blob stores; every handler is one action, and   *)
(* the handlers that race are also given one store call per step.         *)
(*                                                                         *)
(* Strings are sequences of one-character strings, so that toLowerCase    *)
(* and sanitizeName are computed character by character.  Time is counted *)
(* in seconds (the code's milliseconds divided by 1000): every duration   *)
(* of the code is a whole number of seconds and only comparisons and sums *)
(* of times are made, so the scale does not change any outcome.  The      *)
(* createdAt field of the records and the random id of an image, which no *)
(* handler reads back, are left out.                                       *)
(***************************************************************************)
EXTENDS Integers, Sequences, FiniteSets, TLC

VARIABLES
    now,            \* Date.now(), the wall clock
    ticks,          \* how often the clock has advanced (bounds the clock)
    users,          \* store "users", keys user:<id>        -> User
    usernameIndex,  \* store "users", keys username:<lower> -> user id
    emailIndex,     \* store "email-index", <lower email>   -> user id
    sessions,       \* store "sessions", keys session:<token> -> Session
    rateLimits,     \* store "rate-limits", <kind>:<ip> -> {count, resetAt}
    images,         \* store "images", keys image:<name> -> ImageMetadata
    imageData,      \* store "image-data", blobKey -> bytes
    expiration,     \* store "expiration-index", expire:<ms>:<name> -> name
    tokenSeq,       \* number of tokens drawn by generateToken
    idSeq,          \* number of user ids drawn by generateId
    failed,         \* history: per client address, its failed logins so far
    resp,           \* the response to the last request
    webhook,        \* history: what the Discord webhook did during the last handler run
    sweeps,         \* the runs of the cleanup handler that are between two store calls
    calls           \* the requests to the other handlers that are between two store calls

vars == <<now, ticks, users, usernameIndex, emailIndex, sessions, rateLimits,
          images, imageData, expiration, tokenSeq, idSeq, failed, resp, webhook,
          sweeps, calls>>

authStores == <<users, usernameIndex, emailIndex, sessions>>
imageStores == <<images, imageData, expiration>>

----------------------------------------------------------------------------
(* Bounds of the model *)

MaxTicks == 2
MaxTokens == 2
MaxNotFound == 2
MaxFailed == 1
MaxCounted == 2

----------------------------------------------------------------------------
(* Program constants *)

maxAttempts == 10
maxUploads == 50
authWindowMs == 15 * 60
uploadWindowMs == 60 * 60
notFoundWindowMs == 10 * 60
sessionTtl == 7 * 24 * 60 * 60
imageTtl == 30 * 24 * 60 * 60
maxSize == 10 * 1024 * 1024
validTypes == {"image/jpeg", "image/png", "image/gif", "image/webp", "image/svg+xml"}
minPasswordLength == 6
maxNameLength == 100

----------------------------------------------------------------------------
(* Key-value store: get / set / delete over a function whose domain is the *)
(* set of keys present.                                                     *)

Has(store, k) == k \in DOMAIN store

Put(store, k, v) == [x \in DOMAIN store \cup {k} |-> IF x = k THEN v ELSE store[x]]

Del(store, k) == [x \in DOMAIN store \ {k} |-> store[x]]

EmptyStore == [x \in {} |-> 0]

----------------------------------------------------------------------------
(* Strings *)

Letters == {"a", "b", "c", "d", "e", "f", "g", "h", "i", "j", "k", "l", "m",
            "n", "o", "p", "q", "r", "s", "t", "u", "v", "w", "x", "y", "z"}

Digits == {"0", "1", "2", "3", "4", "5", "6", "7", "8", "9"}

\* the upper-case letters that occur in the inputs of the model
LowerChar(c) ==
    CASE c = "A" -> "a"
      [] c = "B" -> "b"
      [] c = "C" -> "c"
      [] c = "D" -> "d"
      [] c = "U" -> "u"
      [] c = "V" -> "v"
      [] OTHER -> c

toLowerCase(s) == [i \in DOMAIN s |-> LowerChar(s[i])]

----------------------------------------------------------------------------
(* Opaque capabilities: bcrypt and the random generators.  A digest is     *)
(* determined by the password and verifies that password only; a drawn     *)
(* token or id has never been drawn before.                                *)

bcryptHash(password) == <<"bcrypt", password>>

bcryptCompare(password, passwordHash) == passwordHash = bcryptHash(password)

\* mutant: the token drawn is the one drawn before
generateTokenAgain == IF tokenSeq = 0 THEN 1 ELSE tokenSeq

generateToken == tokenSeq + 1

generateId == idSeq + 1

\* sessionMatch?.[1]: no cookie, or an empty one, presents no token
NoToken == 0

----------------------------------------------------------------------------
(* Responses.  resp keeps which handler answered (op), whom (ip), when (at) *)
(* and what (status, out).                                                  *)

Response(op, ip, status, out) ==
    [op |-> op, ip |-> ip, at |-> now, status |-> status, out |-> out]

NoOut == [none |-> TRUE]

\* "Retry-After": "900" of the auth handler's 429
authRetryAfter == 900

\* "Retry-After": "3600" of the upload handler's 429
uploadRetryAfter == 3600

\* the body of a 429: its Retry-After header, in seconds
Blocked(retryAfter) == [retryAfter |-> retryAfter]

----------------------------------------------------------------------------
(* The environment of one handler run: what becomes of the calls to the    *)
(* notification sink ("up": they complete, "failing": they reject, "hung": *)
(* they never complete) and which store operation of the run fails.        *)

Env(sink, fault) == [sink |-> sink, fault |-> fault]

\* the sink answers and no store operation fails
Calm == Env("up", "none")

\* mutant: logToDiscord without its try/catch
logToDiscordRethrows(sink) ==
    IF sink = "hung" THEN "hangs" ELSE IF sink = "failing" THEN "throws" ELSE "returns"

\* await logToDiscord(...): try { await fetch(webhookUrl, ...) } catch (e) { log }
logToDiscord(sink) == IF sink = "hung" THEN "hangs" ELSE "returns"

\* no response: the handler has not returned
Pending == [pending |-> TRUE]

\* no response of the handler: an error left it uncaught
Escaped == [escaped |-> TRUE]

\* what the caller gets from a handler that awaits n notifications and then
\* returns r; inTry tells whether the awaits are inside the handler's try
Returns(env, n, inTry, r) ==
    IF n = 0 THEN r
    ELSE IF logToDiscord(env.sink) = "hangs"
       THEN [r EXCEPT !.status = 0, !.out = Pending]
    ELSE IF logToDiscord(env.sink) = "throws"
       THEN IF inTry THEN [r EXCEPT !.status = 500, !.out = NoOut]
            ELSE [r EXCEPT !.status = 0, !.out = Escaped]
    ELSE r

----------------------------------------------------------------------------
(* Rate-limit counters *)

rateLimitKey(ip) == <<"ratelimit", ip>>

uploadRateLimitKey(ip) == <<"upload", ip>>

\* mutant: the not-found probes are counted under the key of the failed logins
notFoundKeyShared(ip) == <<"ratelimit", ip>>

notFoundKey(ip) == <<"404", ip>>

\* mutant: the gate lets the count reach one more than the limit
RateLimitExceededAbove(key, limit) ==
    /\ Has(rateLimits, key)
    /\ rateLimits[key].resetAt > now
    /\ rateLimits[key].count > limit

\* rateLimitData && new Date(resetAt).getTime() > now && count >= limit
RateLimitExceeded(key, limit) ==
    /\ Has(rateLimits, key)
    /\ rateLimits[key].resetAt > now
    /\ rateLimits[key].count >= limit

\* mutant: a failed login starts the count again
FailedLoginRestart(key) == 1

\* (rateLimitData?.count || 0) + 1 : the stored count is taken whatever its window
FailedLoginCount(key) ==
    (IF Has(rateLimits, key) THEN rateLimits[key].count ELSE 0) + 1

\* (data && new Date(data.resetAt).getTime() > now) ? data.count : 0
WindowCount(key) ==
    IF Has(rateLimits, key) /\ rateLimits[key].resetAt > now
    THEN rateLimits[key].count
    ELSE 0

CounterWrite(key, count, windowMs) ==
    Put(rateLimits, key, [count |-> count, resetAt |-> now + windowMs])

\* history of the failed logins of an address: when the first one happened
\* (first) and how many there were (n)
FailedLogin(ip) ==
    Put(failed, ip,
        IF Has(failed, ip)
        THEN [first |-> failed[ip].first, n |-> failed[ip].n + 1]
        ELSE [first |-> now, n |-> 1])

----------------------------------------------------------------------------
(* auth handler *)

\* mutant: the email index is keyed by the email as typed
emailKeyAsTyped(email) == email

emailKey(email) == toLowerCase(email)

usernameKey(username) == toLowerCase(username)

NewSession(userId, token) ==
    [userId |-> userId, token |-> token, expiresAt |-> now + sessionTtl]

\* new Date(session.expiresAt) < new Date()
SessionExpired(session) == session.expiresAt < now

AuthFrame == UNCHANGED <<now, ticks, images, imageData, expiration>>

\* a return without a store write, after n awaited notifications
AuthReply(env, n, op, ip, status, out) ==
    /\ resp' = Returns(env, n, TRUE, Response(op, ip, status, out))
    /\ UNCHANGED <<users, usernameIndex, emailIndex, sessions, rateLimits, tokenSeq, idSeq,
                   failed>>

\* mutant: a blocked request is counted as one more attempt
AuthRejectedCounted(env, op, ip, jsonOk) ==
    \/ /\ env.fault = "rateLimitRead"
       /\ resp' = Response(op, ip, 0, Escaped)
       /\ UNCHANGED <<users, usernameIndex, emailIndex, sessions, rateLimits, tokenSeq,
                      idSeq, failed>>
    \/ /\ env.fault # "rateLimitRead"
       /\ RateLimitExceeded(rateLimitKey(ip), maxAttempts)
       /\ resp' = Returns(env, 1, FALSE,
                          Response(op, ip, 429, Blocked(authRetryAfter)))
       /\ rateLimits' = CounterWrite(rateLimitKey(ip),
                                     FailedLoginCount(rateLimitKey(ip)), authWindowMs)
       /\ UNCHANGED <<users, usernameIndex, emailIndex, sessions, tokenSeq, idSeq, failed>>
    \/ /\ env.fault # "rateLimitRead"
       /\ ~RateLimitExceeded(rateLimitKey(ip), maxAttempts)
       /\ ~jsonOk
       /\ AuthReply(env, 0, op, ip, 500, NoOut)

\* lines 111-137: the read of the failed-attempt counter and its gate (both
\* before the try), then req.json() (inside it)
AuthRejected(env, op, ip, jsonOk) ==
    \/ /\ env.fault = "rateLimitRead"
       /\ resp' = Response(op, ip, 0, Escaped)
       /\ UNCHANGED <<users, usernameIndex, emailIndex, sessions, rateLimits, tokenSeq,
                      idSeq, failed>>
    \/ /\ env.fault # "rateLimitRead"
       /\ RateLimitExceeded(rateLimitKey(ip), maxAttempts)
       /\ resp' = Returns(env, 1, FALSE,
                          Response(op, ip, 429, Blocked(authRetryAfter)))
       /\ UNCHANGED <<users, usernameIndex, emailIndex, sessions, rateLimits, tokenSeq,
                      idSeq, failed>>
    \/ /\ env.fault # "rateLimitRead"
       /\ ~RateLimitExceeded(rateLimitKey(ip), maxAttempts)
       /\ ~jsonOk
       /\ AuthReply(env, 0, op, ip, 500, NoOut)

AuthAdmitted(env, ip, jsonOk) ==
    /\ env.fault # "rateLimitRead"
    /\ ~RateLimitExceeded(rateLimitKey(ip), maxAttempts)
    /\ jsonOk

SignupCreate(env, ip, req) ==
    LET userId == generateId
        token == generateToken
        user == [id |-> userId, username |-> req.username, email |-> req.email,
                 passwordHash |-> bcryptHash(req.password), lastLogin |-> 0]
    IN  /\ tokenSeq < MaxTokens
        /\ users' = Put(users, userId, user)
        /\ usernameIndex' = Put(usernameIndex, usernameKey(req.username), userId)
        /\ emailIndex' = Put(emailIndex, emailKey(req.email), userId)
        /\ sessions' = Put(sessions, token, NewSession(userId, token))
        /\ tokenSeq' = token
        /\ idSeq' = userId
        /\ UNCHANGED <<rateLimits, failed>>
        /\ resp' = Returns(env, 1, TRUE,
                           Response("signup", ip, 201, [user |-> userId, token |-> token]))

SignupIn(env, ip, jsonOk, username, email, password) ==
    LET req == [jsonOk |-> jsonOk, username |-> username, email |-> email,
                password |-> password]
    IN  /\ AuthFrame
        /\ \/ AuthRejected(env, "signup", ip, jsonOk)
           \/ /\ AuthAdmitted(env, ip, jsonOk)
              /\ IF username = <<>> \/ email = <<>> \/ password = <<>>
                    THEN AuthReply(env, 0, "signup", ip, 400, NoOut)
                 ELSE IF Len(password) < minPasswordLength
                    THEN AuthReply(env, 0, "signup", ip, 400, NoOut)
                 ELSE IF env.fault = "store"
                    THEN AuthReply(env, 0, "signup", ip, 500, NoOut)
                 ELSE IF Has(emailIndex, emailKey(email))
                    THEN AuthReply(env, 0, "signup", ip, 409, NoOut)
                 ELSE IF Has(usernameIndex, usernameKey(username))
                    THEN AuthReply(env, 0, "signup", ip, 409, NoOut)
                 ELSE SignupCreate(env, ip, req)

\* the handler run while the webhook behaves as env.sink says
SignupUnder(env, ip, jsonOk, username, email, password) ==
    /\ SignupIn(env, ip, jsonOk, username, email, password)
    /\ webhook' = env.sink
    /\ UNCHANGED <<sweeps, calls>>

Signup(ip, jsonOk, username, email, password) ==
    SignupUnder(Calm, ip, jsonOk, username, email, password)

\* JSON.stringify({ error: "Invalid email or password" })
InvalidCredentials == [error |-> "Invalid email or password"]

\* mutant: the unknown-email answer names its cause
UnknownEmailNamed == [error |-> "No account with this email"]

\* the body of the 401 for an email that is not in the index
UnknownEmailBody == InvalidCredentials

\* logAccountActivity, and logSecurityEvent from the third failure on
FailedLoginNotices(key) == IF FailedLoginCount(key) >= 3 THEN 2 ELSE 1

LoginFailed(env, ip, req, body) ==
    /\ rateLimits' = CounterWrite(rateLimitKey(ip), FailedLoginCount(rateLimitKey(ip)),
                                  authWindowMs)
    /\ failed' = FailedLogin(ip)
    /\ UNCHANGED <<users, usernameIndex, emailIndex, sessions, tokenSeq, idSeq>>
    /\ resp' = Returns(env, FailedLoginNotices(rateLimitKey(ip)), TRUE,
                       Response("login", ip, 401, body))

\* mutant: a login with the right password clears the failed-attempt counter
LoginSucceedResetting(env, ip, req, userId) ==
    LET token == generateToken
    IN  /\ env.fault # "lastLoginWrite"
        /\ tokenSeq < MaxTokens
        /\ users' = Put(users, userId, [users[userId] EXCEPT !.lastLogin = now])
        /\ sessions' = Put(sessions, token, NewSession(userId, token))
        /\ tokenSeq' = token
        /\ rateLimits' = Del(rateLimits, rateLimitKey(ip))
        /\ UNCHANGED <<usernameIndex, emailIndex, idSeq, failed>>
        /\ resp' = Returns(env, 1, TRUE,
                           Response("login", ip, 200, [user |-> userId, token |-> token]))

\* mutant: a login revokes the other sessions of the account
LoginSucceedRevoking(env, ip, req, userId) ==
    LET token == generateToken
    IN  /\ env.fault # "lastLoginWrite"
        /\ tokenSeq < MaxTokens
        /\ users' = Put(users, userId, [users[userId] EXCEPT !.lastLogin = now])
        /\ sessions' = Put(EmptyStore, token, NewSession(userId, token))
        /\ tokenSeq' = token
        /\ UNCHANGED <<usernameIndex, emailIndex, rateLimits, idSeq, failed>>
        /\ resp' = Returns(env, 1, TRUE,
                           Response("login", ip, 200, [user |-> userId, token |-> token]))

LoginSucceed(env, ip, req, userId) ==
    LET token == generateToken
    IN  IF env.fault = "lastLoginWrite"
           THEN AuthReply(env, 0, "login", ip, 500, NoOut)
        ELSE /\ tokenSeq < MaxTokens
             /\ users' = Put(users, userId, [users[userId] EXCEPT !.lastLogin = now])
             /\ sessions' = Put(sessions, token, NewSession(userId, token))
             /\ tokenSeq' = token
             /\ UNCHANGED <<usernameIndex, emailIndex, rateLimits, idSeq, failed>>
             /\ resp' = Returns(env, 1, TRUE,
                                Response("login", ip, 200,
                                         [user |-> userId, token |-> token]))

LoginIn(env, ip, jsonOk, email, password) ==
    LET req == [jsonOk |-> jsonOk, email |-> email, password |-> password]
    IN  /\ AuthFrame
        /\ \/ AuthRejected(env, "login", ip, jsonOk)
           \/ /\ AuthAdmitted(env, ip, jsonOk)
              /\ IF email = <<>> \/ password = <<>>
                    THEN AuthReply(env, 0, "login", ip, 400, NoOut)
                 ELSE IF env.fault = "store"
                    THEN AuthReply(env, 0, "login", ip, 500, NoOut)
                 ELSE IF ~Has(emailIndex, emailKey(email))
                    THEN LoginFailed(env, ip, req, UnknownEmailBody)
                 ELSE IF ~Has(users, emailIndex[emailKey(email)])
                    THEN AuthReply(env, 0, "login", ip, 401, InvalidCredentials)
                 ELSE IF ~bcryptCompare(password, users[emailIndex[emailKey(email)]].passwordHash)
                    THEN LoginFailed(env, ip, req, InvalidCredentials)
                 ELSE LoginSucceed(env, ip, req, emailIndex[emailKey(email)])

LoginUnder(env, ip, jsonOk, email, password) ==
    /\ LoginIn(env, ip, jsonOk, email, password)
    /\ webhook' = env.sink
    /\ UNCHANGED <<sweeps, calls>>

Login(ip, jsonOk, email, password) == LoginUnder(Calm, ip, jsonOk, email, password)

LogoutIn(env, ip, jsonOk, cookie) ==
    LET req == [jsonOk |-> jsonOk, cookie |-> cookie]
    IN  /\ AuthFrame
        /\ \/ AuthRejected(env, "logout", ip, jsonOk)
           \/ /\ AuthAdmitted(env, ip, jsonOk)
              /\ IF cookie # NoToken /\ env.fault = "store"
                    THEN AuthReply(env, 0, "logout", ip, 500, NoOut)
                 ELSE /\ sessions' = IF cookie # NoToken THEN Del(sessions, cookie)
                                     ELSE sessions
                      /\ UNCHANGED <<users, usernameIndex, emailIndex, rateLimits,
                                     tokenSeq, idSeq, failed>>
                      /\ resp' = Returns(env, IF cookie # NoToken THEN 1 ELSE 0, TRUE,
                                         Response("logout", ip, 200, NoOut))

LogoutUnder(env, ip, jsonOk, cookie) ==
    /\ LogoutIn(env, ip, jsonOk, cookie)
    /\ webhook' = env.sink
    /\ UNCHANGED <<sweeps, calls>>

Logout(ip, jsonOk, cookie) == LogoutUnder(Calm, ip, jsonOk, cookie)

VerifyReply(ip, authenticated, user) ==
    /\ UNCHANGED <<users, usernameIndex, emailIndex, rateLimits, tokenSeq, idSeq, failed>>
    /\ resp' = Response("verify", ip, 200,
                        [authenticated |-> authenticated, user |-> user])

VerifyIn(env, ip, jsonOk, cookie, bodyToken) ==
    LET req == [jsonOk |-> jsonOk, cookie |-> cookie, bodyToken |-> bodyToken]
        token == IF cookie # NoToken THEN cookie ELSE bodyToken
    IN  /\ AuthFrame
        /\ \/ AuthRejected(env, "verify", ip, jsonOk)
           \/ /\ AuthAdmitted(env, ip, jsonOk)
              /\ IF token = NoToken
                    THEN UNCHANGED sessions /\ VerifyReply(ip, FALSE, 0)
                 ELSE IF env.fault = "store"
                    THEN AuthReply(env, 0, "verify", ip, 500, NoOut)
                 ELSE IF ~Has(sessions, token)
                    THEN UNCHANGED sessions /\ VerifyReply(ip, FALSE, 0)
                 ELSE IF SessionExpired(sessions[token])
                    THEN sessions' = Del(sessions, token) /\ VerifyReply(ip, FALSE, 0)
                 ELSE IF ~Has(users, sessions[token].userId)
                    THEN UNCHANGED sessions /\ VerifyReply(ip, FALSE, 0)
                 ELSE UNCHANGED sessions
                      /\ VerifyReply(ip, TRUE, sessions[token].userId)

VerifyUnder(env, ip, jsonOk, cookie, bodyToken) ==
    /\ VerifyIn(env, ip, jsonOk, cookie, bodyToken)
    /\ webhook' = env.sink
    /\ UNCHANGED <<sweeps, calls>>

Verify(ip, jsonOk, cookie, bodyToken) == VerifyUnder(Calm, ip, jsonOk, cookie, bodyToken)

----------------------------------------------------------------------------
(* upload handler *)

\* /[^a-z0-9-_]/g -> "-"
ReplaceInvalid(s) ==
    [i \in DOMAIN s |-> IF s[i] \in Letters \cup Digits \cup {"-", "_"} THEN s[i] ELSE "-"]

\* /-+/g -> "-"
RECURSIVE CollapseDashes(_)
CollapseDashes(s) ==
    IF Len(s) < 2 THEN s
    ELSE IF s[1] = "-" /\ s[2] = "-" THEN CollapseDashes(Tail(s))
    ELSE <<s[1]>> \o CollapseDashes(Tail(s))

\* /^-|-$/g -> ""
TrimDashes(s) ==
    LET a == IF Len(s) > 0 /\ s[1] = "-" THEN Tail(s) ELSE s
    IN  IF Len(a) > 0 /\ a[Len(a)] = "-" THEN SubSeq(a, 1, Len(a) - 1) ELSE a

Slice(s, n) == IF Len(s) > n THEN SubSeq(s, 1, n) ELSE s

sanitizeName(name) ==
    Slice(TrimDashes(CollapseDashes(ReplaceInvalid(toLowerCase(name)))), maxNameLength)

\* imageName.trim().length === 0
IsBlank(name) == \A i \in DOMAIN name : name[i] = " "

\* a null expiresAt; every real expiry time is positive
NoExpiry == 0

NoFile == [none |-> TRUE]

\* getUserFromSession: the id of the session's user, or 0 for null.  Reads only.
getUserFromSession(cookie) ==
    IF cookie = NoToken THEN 0
    ELSE IF ~Has(sessions, cookie) THEN 0
    ELSE IF SessionExpired(sessions[cookie]) THEN 0
    ELSE IF ~Has(users, sessions[cookie].userId) THEN 0
    ELSE sessions[cookie].userId

blobKeyOf(name) == <<"img", now, name>>

expireKey(expireTime, name) == <<"expire", expireTime, name>>

\* mutant: the name is never found taken
nameExistsNever(sanitizedName) == FALSE

\* imagesStore.get(`image:${sanitizedName}`) is truthy
nameExists(sanitizedName) == Has(images, sanitizedName)

UploadFrame ==
    UNCHANGED <<now, ticks, users, usernameIndex, emailIndex, sessions, tokenSeq, idSeq>>

\* mutant: a rejected upload is counted as an upload
UploadReplyCounted(ip, status) ==
    /\ resp' = Response("upload", ip, status, NoOut)
    /\ rateLimits' = CounterWrite(uploadRateLimitKey(ip),
                                  WindowCount(uploadRateLimitKey(ip)) + 1, uploadWindowMs)
    /\ UNCHANGED <<images, imageData, expiration, failed>>

UploadReply(ip, status) ==
    /\ resp' = Response("upload", ip, status, NoOut)
    /\ UNCHANGED <<rateLimits, images, imageData, expiration, failed>>

\* the counter read at line 131, before the try, throws
UploadEscapes(ip) ==
    /\ resp' = Response("upload", ip, 0, Escaped)
    /\ UNCHANGED <<rateLimits, images, imageData, expiration, failed>>

UploadBlocked(env, ip) ==
    /\ resp' = Returns(env, 1, FALSE,
                       Response("upload", ip, 429, Blocked(uploadRetryAfter)))
    /\ UNCHANGED <<rateLimits, images, imageData, expiration, failed>>

UploadStore(env, ip, req, sanitizedName) ==
    LET user == getUserFromSession(req.cookie)
        isAnonymous == req.anonymous \/ user = 0
        expiresAt == IF isAnonymous THEN now + imageTtl ELSE NoExpiry
        blobKey == blobKeyOf(sanitizedName)
        imageMetadata ==
            [name |-> sanitizedName,
             originalFilename |-> req.file.name, contentType |-> req.file.type,
             fileSize |-> req.file.size, userId |-> user, isAnonymous |-> isAnonymous,
             expiresAt |-> expiresAt, blobKey |-> blobKey]
    IN  /\ imageData' = Put(imageData, blobKey, req.file.bytes)
        /\ images' = Put(images, sanitizedName, imageMetadata)
        /\ rateLimits' = CounterWrite(uploadRateLimitKey(ip),
                                      WindowCount(uploadRateLimitKey(ip)) + 1,
                                      uploadWindowMs)
        /\ UNCHANGED failed
        /\ expiration' = IF isAnonymous /\ expiresAt # NoExpiry
                            THEN Put(expiration, expireKey(expiresAt, sanitizedName),
                                     sanitizedName)
                            ELSE expiration
        /\ resp' = Returns(env, 2, TRUE,
                           Response("upload", ip, 201,
                                    [name |-> sanitizedName, expiresAt |-> expiresAt]))

UploadIn(env, ip, formOk, file, imageName, anonymous, cookie) ==
    LET req == [formOk |-> formOk, file |-> file, name |-> imageName,
                anonymous |-> anonymous, cookie |-> cookie]
        sanitizedName == sanitizeName(imageName)
    IN  /\ UploadFrame
        /\ IF env.fault = "rateLimitRead"
              THEN UploadEscapes(ip)
           ELSE IF RateLimitExceeded(uploadRateLimitKey(ip), maxUploads)
              THEN UploadBlocked(env, ip)
           ELSE IF ~formOk
              THEN UploadReply(ip, 500)
           ELSE IF file = NoFile
              THEN UploadReply(ip, 400)
           ELSE IF imageName = <<>> \/ IsBlank(imageName)
              THEN UploadReply(ip, 400)
           ELSE IF file.type \notin validTypes
              THEN UploadReply(ip, 400)
           ELSE IF file.size > maxSize
              THEN UploadReply(ip, 400)
           ELSE IF Len(sanitizedName) < 1
              THEN UploadReply(ip, 400)
           ELSE IF env.fault = "store"
              THEN UploadReply(ip, 500)
           ELSE IF nameExists(sanitizedName)
              THEN UploadReply(ip, 409)
           ELSE UploadStore(env, ip, req, sanitizedName)

UploadUnder(env, ip, formOk, file, imageName, anonymous, cookie) ==
    /\ UploadIn(env, ip, formOk, file, imageName, anonymous, cookie)
    /\ webhook' = env.sink
    /\ UNCHANGED <<sweeps, calls>>

Upload(ip, formOk, file, imageName, anonymous, cookie) ==
    UploadUnder(Calm, ip, formOk, file, imageName, anonymous, cookie)

----------------------------------------------------------------------------
(* image handler (fetch) *)

\* mutant: an image counts as expired at the very instant of its expiresAt
ImageExpiredAtInstant(image) == image.expiresAt # NoExpiry /\ image.expiresAt <= now

\* image.expiresAt && new Date(image.expiresAt) < new Date()
ImageExpired(image) == image.expiresAt # NoExpiry /\ image.expiresAt < now

FetchFrame ==
    UNCHANGED <<now, ticks, users, usernameIndex, emailIndex, sessions, tokenSeq, idSeq>>

\* a return of the image handler without a store write
FetchReply(ip, status) ==
    /\ resp' = Response("fetch", ip, status, NoOut)
    /\ UNCHANGED <<rateLimits, images, imageData, expiration, failed>>

\* if (newCount >= 20 && newCount % 10 === 0) await logSecurityEvent(...)
NotFoundNotices(newCount) == IF newCount >= 20 /\ newCount % 10 = 0 THEN 1 ELSE 0

FetchNotFound(env, ip, req) ==
    LET newCount == WindowCount(notFoundKey(ip)) + 1
    IN  IF env.fault = "rateLimitRead"
           THEN FetchReply(ip, 500)
        ELSE /\ newCount <= MaxNotFound
             /\ rateLimits' = CounterWrite(notFoundKey(ip), newCount, notFoundWindowMs)
             /\ UNCHANGED failed
             /\ UNCHANGED <<images, imageData, expiration>>
             /\ resp' = Returns(env, NotFoundNotices(newCount), TRUE,
                                Response("fetch", ip, 404, [kind |-> "notfound"]))

\* mutant: the index key is rebuilt from the time of the fetch
lazyIndexKeyNow(image, imageName) == expireKey(now, imageName)

\* expire:${new Date(image.expiresAt).getTime()}:${imageName}
lazyIndexKey(image, imageName) == expireKey(image.expiresAt, imageName)

\* lazy expiry: payload, then metadata, then the index entry
FetchExpired(ip, req, image) ==
    /\ imageData' = Del(imageData, image.blobKey)
    /\ images' = Del(images, req.name)
    /\ expiration' = Del(expiration, lazyIndexKey(image, req.name))
    /\ UNCHANGED <<rateLimits, failed>>
    /\ resp' = Response("fetch", ip, 410, [kind |-> "expired"])

\* isDiscordBot || isRawPath || url.searchParams.has("raw") || !wantsHtml
ServesRaw(req) ==
    LET wantsHtml == req.acceptsHtml /\ ~req.rawParam /\ ~req.isRawPath
    IN  req.isDiscordBot \/ req.isRawPath \/ req.rawParam \/ ~wantsHtml

FetchServe(ip, req, image) ==
    /\ UNCHANGED <<rateLimits, images, imageData, expiration, failed>>
    /\ resp' =
          IF ~Has(imageData, image.blobKey)
             THEN Response("fetch", ip, 404, [kind |-> "nodata"])
          ELSE IF ServesRaw(req)
             THEN Response("fetch", ip, 200,
                           [kind |-> "image", contentType |-> image.contentType,
                            body |-> imageData[image.blobKey]])
          ELSE Response("fetch", ip, 200,
                        [kind |-> "html", contentType |-> "text/html",
                         ogImageType |-> image.contentType])

FetchIn(env, ip, imageName, isRawPath, rawParam, acceptsHtml, isDiscordBot) ==
    LET req == [name |-> imageName, isRawPath |-> isRawPath, rawParam |-> rawParam,
                acceptsHtml |-> acceptsHtml, isDiscordBot |-> isDiscordBot]
    IN  /\ FetchFrame
        /\ IF env.fault = "store" THEN FetchReply(ip, 500)
           ELSE IF ~Has(images, imageName) THEN FetchNotFound(env, ip, req)
           ELSE IF ImageExpired(images[imageName]) THEN FetchExpired(ip, req, images[imageName])
           ELSE FetchServe(ip, req, images[imageName])

FetchUnder(env, ip, imageName, isRawPath, rawParam, acceptsHtml, isDiscordBot) ==
    /\ FetchIn(env, ip, imageName, isRawPath, rawParam, acceptsHtml, isDiscordBot)
    /\ webhook' = env.sink
    /\ UNCHANGED <<sweeps, calls>>

Fetch(ip, imageName, isRawPath, rawParam, acceptsHtml, isDiscordBot) ==
    FetchUnder(Calm, ip, imageName, isRawPath, rawParam, acceptsHtml, isDiscordBot)

----------------------------------------------------------------------------
(* cleanup handler (scheduled sweep) *)

\* parts = key.split(":"): expireTimestamp = parseInt(parts[1]), imageName = the rest
expireTimestamp(key) == key[2]

entryName(key) == key[3]

\* mutant: an entry that expires this very instant is skipped
IsDueStrictly(key) == ~(expireTimestamp(key) >= now)

\* if (expireTimestamp > now) continue
IsDue(key) == ~(expireTimestamp(key) > now)

DueEntries == {key \in DOMAIN expiration : Len(key) >= 3 /\ IsDue(key)}

\* the images found under the name of a due entry
SweptNames == {entryName(key) : key \in DueEntries} \cap DOMAIN images

\* no entry of the listing fails
NoEntry == <<>>

\* the store operations of the loop body, in the order of the code
EntryOps == {"get", "deleteBlob", "deleteMeta", "deleteIndex"}

\* the loop meets the entries in the order of the listing (by key), so the
\* metadata of a name is gone once an earlier due entry of that name is done
ListedBefore(key, other) == expireTimestamp(key) < expireTimestamp(other)

\* the operation op on entry bad is executed by this sweep, and so can fail:
\* the two deletes of the resource are made only if its metadata was found
EntryFails(env, bad, op) ==
    /\ env.fault = "entry"
    /\ bad \in DueEntries
    /\ \/ op \in {"get", "deleteIndex"}
       \/ /\ Has(images, entryName(bad))
          /\ ~\E key \in DueEntries :
                entryName(key) = entryName(bad) /\ ListedBefore(key, bad)

\* mutant: the index entry of the failing entry is deleted all the same
entriesDoneAll(env, bad, op) == DueEntries

\* the due entries whose loop body reaches expirationStore.delete(blob.key)
entriesDone(env, bad, op) ==
    IF EntryFails(env, bad, op) THEN DueEntries \ {bad} ELSE DueEntries

\* a sweep in which operation op of the due entry bad throws into the
\* per-entry catch (lines 73-75) when env.fault = "entry", and in which the
\* listing itself throws into the outer catch when env.fault = "list"
SweepIn(env, bad, op) ==
    LET fails == EntryFails(env, bad, op)
        done == entriesDone(env, bad, op)
        \* resources whose payload / metadata delete was executed
        blobGone == ({entryName(key) : key \in done}
                       \cup (IF fails /\ op \in {"deleteMeta", "deleteIndex"}
                                THEN {entryName(bad)} ELSE {})) \cap DOMAIN images
        metaGone == ({entryName(key) : key \in done}
                       \cup (IF fails /\ op = "deleteIndex"
                                THEN {entryName(bad)} ELSE {})) \cap DOMAIN images
    IN  /\ UNCHANGED <<now, ticks, users, usernameIndex, emailIndex, sessions, rateLimits,
                       tokenSeq, idSeq, failed>>
        /\ IF env.fault = "list"
              THEN /\ UNCHANGED <<images, imageData, expiration>>
                   /\ resp' = Response("sweep", "scheduler", 500, NoOut)
           ELSE /\ imageData' = [k \in DOMAIN imageData \ {images[n].blobKey : n \in blobGone}
                                   |-> imageData[k]]
                /\ images' = [n \in DOMAIN images \ metaGone |-> images[n]]
                /\ expiration' = [key \in DOMAIN expiration \ done |-> expiration[key]]
                /\ resp' = Returns(env,
                                   IF Cardinality(DOMAIN expiration) > 0 THEN 1 ELSE 0,
                                   TRUE,
                                   Response("sweep", "scheduler", 200,
                                            [found |-> Cardinality(DOMAIN expiration),
                                             deleted |-> Cardinality(done)]))

SweepUnder(env, bad, op) ==
    /\ SweepIn(env, bad, op)
    /\ webhook' = env.sink
    /\ UNCHANGED <<sweeps, calls>>

Sweep == SweepUnder(Calm, NoEntry, "get")

----------------------------------------------------------------------------
(* cleanup handler, one store call per step: what other requests and other *)
(* runs of the handler can interleave with                                 *)

\* the runs of the handler that can be in progress at once
SweepIds == {1, 2}

\* the characters of a stored name, in the order of their character codes
CharOrder ==
    <<"-", "0", "1", "2", "3", "4", "5", "6", "7", "8", "9", "_",
      "a", "b", "c", "d", "e", "f", "g", "h", "i", "j", "k", "l", "m",
      "n", "o", "p", "q", "r", "s", "t", "u", "v", "w", "x", "y", "z">>

CharCode(c) == CHOOSE i \in DOMAIN CharOrder : CharOrder[i] = c

RECURSIVE NameBefore(_, _)
NameBefore(a, b) ==
    IF a = <<>> THEN b # <<>>
    ELSE IF b = <<>> THEN FALSE
    ELSE IF Head(a) # Head(b) THEN CharCode(Head(a)) < CharCode(Head(b))
    ELSE NameBefore(Tail(a), Tail(b))

\* the order of the keys expire:<ms>:<name> in a listing
KeyBefore(key, other) ==
    \/ expireTimestamp(key) < expireTimestamp(other)
    \/ /\ expireTimestamp(key) = expireTimestamp(other)
       /\ NameBefore(entryName(key), entryName(other))

RECURSIVE Listing(_)
Listing(keys) ==
    IF keys = {} THEN <<>>
    ELSE LET first == CHOOSE key \in keys : \A other \in keys \ {key} : KeyBefore(key, other)
         IN  <<first>> \o Listing(keys \ {first})

\* a run that has not started: const now, { blobs }, the loop position, the
\* metadata read for the current entry, deletedCount, the response status,
\* and (history) the three stores as they were when the run listed the index
IdleRun ==
    [pc |-> "idle", at |-> 0, blobs |-> <<>>, i |-> 0, found |-> FALSE,
     blobKey |-> <<>>, deletedCount |-> 0, status |-> 0, before |-> <<>>]

\* the position of the next entry after i that the loop does not skip
NextDue(blobs, i, at) ==
    IF \E j \in (i + 1)..Len(blobs) : ~(expireTimestamp(blobs[j]) > at)
       THEN CHOOSE j \in (i + 1)..Len(blobs) :
              /\ ~(expireTimestamp(blobs[j]) > at)
              /\ \A k \in (i + 1)..(j - 1) : expireTimestamp(blobs[k]) > at
    ELSE Len(blobs) + 1

\* mutant: the loop is left after its first due entry
AdvanceOnce(run) ==
    LET j == NextDue(run.blobs, run.i, run.at)
    IN  IF j > Len(run.blobs) \/ run.pc # "idle"
           THEN [run EXCEPT !.pc = "done", !.i = j, !.status = 200]
        ELSE [run EXCEPT !.pc = "get", !.i = j]

\* the run moves to its next due entry, or leaves the loop and returns 200
Advance(run) ==
    LET j == NextDue(run.blobs, run.i, run.at)
    IN  IF j > Len(run.blobs)
           THEN [run EXCEPT !.pc = "done", !.i = j, !.status = 200]
        ELSE [run EXCEPT !.pc = "get", !.i = j]

SweepFrame ==
    UNCHANGED <<now, ticks, users, usernameIndex, emailIndex, sessions, rateLimits,
                tokenSeq, idSeq, failed, webhook, calls>>

\* the run of the handler continues as run; its response, once it returns
SweepContinues(id, run) ==
    /\ sweeps' = [sweeps EXCEPT ![id] = run]
    /\ resp' = IF run.pc = "done"
                  THEN Response("sweep", "scheduler", 200,
                                [found |-> Len(run.blobs), deleted |-> run.deletedCount])
               ELSE resp

\* lines 39-44: const now = Date.now(); expirationStore.list({ prefix: "expire:" })
SweepList(id) ==
    /\ sweeps[id].pc = "idle"
    /\ SweepFrame
    /\ UNCHANGED <<images, imageData, expiration>>
    /\ SweepContinues(id, Advance([IdleRun EXCEPT
                                     !.at = now,
                                     !.blobs = Listing(DOMAIN expiration),
                                     !.before = <<images, imageData, expiration>>]))

\* line 59: imagesStore.get(`image:${imageName}`)
SweepGet(id) ==
    LET run == sweeps[id]
        imageName == entryName(run.blobs[run.i])
    IN  /\ run.pc = "get"
        /\ SweepFrame
        /\ UNCHANGED <<images, imageData, expiration>>
        /\ SweepContinues(id,
              IF Has(images, imageName)
                 THEN [run EXCEPT !.pc = "deleteBlob", !.found = TRUE,
                                  !.blobKey = images[imageName].blobKey]
              ELSE [run EXCEPT !.pc = "deleteIndex", !.found = FALSE])

\* line 63: imageDataStore.delete(image.blobKey)
SweepDeleteBlob(id) ==
    LET run == sweeps[id]
    IN  /\ run.pc = "deleteBlob"
        /\ SweepFrame
        /\ imageData' = Del(imageData, run.blobKey)
        /\ UNCHANGED <<images, expiration>>
        /\ SweepContinues(id, [run EXCEPT !.pc = "deleteMeta"])

\* mutant: the index entry is deleted where the metadata record should be
SweepDeleteMetaLate(id) ==
    LET run == sweeps[id]
    IN  /\ run.pc = "deleteMeta"
        /\ SweepFrame
        /\ expiration' = Del(expiration, run.blobs[run.i])
        /\ UNCHANGED <<images, imageData>>
        /\ SweepContinues(id, [run EXCEPT !.pc = "deleteIndex"])

\* line 65: imagesStore.delete(`image:${imageName}`)
SweepDeleteMeta(id) ==
    LET run == sweeps[id]
    IN  /\ run.pc = "deleteMeta"
        /\ SweepFrame
        /\ images' = Del(images, entryName(run.blobs[run.i]))
        /\ UNCHANGED <<imageData, expiration>>
        /\ SweepContinues(id, [run EXCEPT !.pc = "deleteIndex"])

\* lines 71-72: expirationStore.delete(blob.key); deletedCount++
SweepDeleteIndex(id) ==
    LET run == sweeps[id]
    IN  /\ run.pc = "deleteIndex"
        /\ SweepFrame
        /\ expiration' = Del(expiration, run.blobs[run.i])
        /\ UNCHANGED <<images, imageData>>
        /\ SweepContinues(id, Advance([run EXCEPT !.deletedCount = @ + 1]))

\* one store call of run id
SweepStep(id) ==
    \/ SweepList(id)
    \/ SweepGet(id)
    \/ SweepDeleteBlob(id)
    \/ SweepDeleteMeta(id)
    \/ SweepDeleteIndex(id)

----------------------------------------------------------------------------
(* Requests, store call by store call.  A request in flight has read what  *)
(* its handler holds in local variables; between two of its store calls    *)
(* any other request or cleanup run may take steps.                        *)

CallIds == {1, 2}

\* no metadata read
NoImage == [blobKey |-> <<>>, expiresAt |-> NoExpiry]

\* a request that has not started: the handler it runs, its sender and
\* input, the time it started (history), the counter and the metadata it has
\* read or built, the user id it has drawn, its response status, and
\* (history) the places of its write of the metadata or email index entry
\* (wrote) and of the username index entry (wroteName) among such writes
IdleCall ==
    [pc |-> "idle", op |-> "none", ip |-> "none", req |-> <<>>, at |-> 0,
     seen |-> <<>>, image |-> NoImage, user |-> 0, status |-> 0, wrote |-> 0,
     wroteName |-> 0]

\* history: the next place in the order of the writes of unique keys
NextWrite ==
    LET places == {calls[id].wrote : id \in CallIds} \cup
                  {calls[id].wroteName : id \in CallIds}
    IN  1 + CHOOSE n \in places : \A k \in places : k <= n

\* slot id is free for a new request
Free(id) == calls[id].pc \in {"idle", "done"}

\* the request of slot id returns the response r
CallReturns(id, r) ==
    /\ calls' = [calls EXCEPT ![id].pc = "done", ![id].status = r.status]
    /\ resp' = r

CallFrame ==
    UNCHANGED <<now, ticks, users, usernameIndex, emailIndex, sessions, tokenSeq, idSeq,
                failed, webhook, sweeps>>

(* image handler, store call by store call *)

\* line 934: imagesStore.get(`image:${imageName}`); without metadata the
\* request ends in the not-found branch, whose counter no other request of
\* these runs uses
FetchGet(id, ip, f) ==
    /\ Free(id)
    /\ UNCHANGED <<now, ticks, users, usernameIndex, emailIndex, sessions, tokenSeq, idSeq,
                   webhook, sweeps>>
    /\ IF ~Has(images, f.name)
          THEN /\ FetchNotFound(Calm, ip, f)
               /\ calls' = [calls EXCEPT ![id] =
                              [IdleCall EXCEPT !.pc = "done", !.op = "fetch", !.ip = ip,
                                               !.req = f, !.at = now, !.status = 404]]
       ELSE /\ UNCHANGED <<rateLimits, images, imageData, expiration, failed, resp>>
            /\ calls' = [calls EXCEPT ![id] =
                           [IdleCall EXCEPT
                              !.pc = IF ImageExpired(images[f.name])
                                        THEN "deleteBlob" ELSE "payload",
                              !.op = "fetch", !.ip = ip, !.req = f, !.at = now,
                              !.image = images[f.name]]]

\* line 1022: imageDataStore.get(image.blobKey), and the response
FetchPayload(id) ==
    LET call == calls[id]
    IN  /\ call.op = "fetch" /\ call.pc = "payload"
        /\ CallFrame
        /\ FetchServe(call.ip, call.req, call.image)
        /\ calls' = [calls EXCEPT ![id].pc = "done", ![id].status = resp'.status]

\* mutant: the lazy expiry leaves the payload where it is
FetchDeleteBlobSkipped(id) ==
    LET call == calls[id]
    IN  /\ call.op = "fetch" /\ call.pc = "deleteBlob"
        /\ CallFrame
        /\ UNCHANGED <<rateLimits, images, imageData, expiration, resp>>
        /\ calls' = [calls EXCEPT ![id].pc = "deleteMeta"]

\* line 990: imageDataStore.delete(image.blobKey)
FetchDeleteBlob(id) ==
    LET call == calls[id]
    IN  /\ call.op = "fetch" /\ call.pc = "deleteBlob"
        /\ CallFrame
        /\ imageData' = Del(imageData, call.image.blobKey)
        /\ UNCHANGED <<rateLimits, images, expiration, resp>>
        /\ calls' = [calls EXCEPT ![id].pc = "deleteMeta"]

\* line 991: imagesStore.delete(`image:${imageName}`)
FetchDeleteMeta(id) ==
    LET call == calls[id]
    IN  /\ call.op = "fetch" /\ call.pc = "deleteMeta"
        /\ CallFrame
        /\ images' = Del(images, call.req.name)
        /\ UNCHANGED <<rateLimits, imageData, expiration, resp>>
        /\ calls' = [calls EXCEPT ![id].pc = "deleteIndex"]

\* lines 994-997: expirationStore.delete(`expire:${expireTime}:${imageName}`),
\* and the 410 response
FetchDeleteIndex(id) ==
    LET call == calls[id]
    IN  /\ call.op = "fetch" /\ call.pc = "deleteIndex"
        /\ CallFrame
        /\ expiration' = Del(expiration, lazyIndexKey(call.image, call.req.name))
        /\ UNCHANGED <<rateLimits, images, imageData>>
        /\ CallReturns(id, Response("fetch", call.ip, 410, [kind |-> "expired"]))

\* rateLimitData is null: (rateLimitData?.count || 0) is 0 and the gate is open
NoCounter == [count |-> 0, resetAt |-> 0]

\* rateLimitStore.get(key) as the handler holds it in rateLimitData
CounterRead(key) == IF Has(rateLimits, key) THEN rateLimits[key] ELSE NoCounter

(* upload handler, store call by store call: an upload that passes the    *)
(* validation of the form (lines 156-201)                                  *)

\* lines 131-152: the read of the upload counter, const now, and the gate
UploadBegin(id, ip, f) ==
    /\ Free(id)
    /\ f.formOk /\ f.file # NoFile /\ ~IsBlank(f.name)
    /\ f.file.type \in validTypes /\ f.file.size <= maxSize
    /\ Len(sanitizeName(f.name)) >= 1
    /\ CallFrame
    /\ UNCHANGED <<rateLimits, images, imageData, expiration>>
    /\ IF RateLimitExceeded(uploadRateLimitKey(ip), maxUploads)
          THEN /\ resp' = Response("upload", ip, 429, Blocked(uploadRetryAfter))
               /\ calls' = [calls EXCEPT ![id] =
                              [IdleCall EXCEPT !.pc = "done", !.op = "upload", !.ip = ip,
                                               !.req = f, !.at = now, !.status = 429]]
       ELSE /\ resp' = resp
            /\ calls' = [calls EXCEPT ![id] =
                           [IdleCall EXCEPT !.pc = "check", !.op = "upload", !.ip = ip,
                                            !.req = f, !.at = now,
                                            !.seen = CounterRead(uploadRateLimitKey(ip))]]

\* lines 204-240: imagesStore.get(`image:${sanitizedName}`) and its 409;
\* getUserFromSession; expiresAt, blobKey and the metadata record, built
\* when the session lookup has answered
UploadCheck(id) ==
    LET call == calls[id]
        sanitizedName == sanitizeName(call.req.name)
        user == getUserFromSession(call.req.cookie)
        isAnonymous == call.req.anonymous \/ user = 0
    IN  /\ call.op = "upload" /\ call.pc = "check"
        /\ CallFrame
        /\ UNCHANGED <<rateLimits, images, imageData, expiration>>
        /\ IF nameExists(sanitizedName)
              THEN CallReturns(id, Response("upload", call.ip, 409, NoOut))
           ELSE /\ resp' = resp
                /\ calls' = [calls EXCEPT
                      ![id].pc = "putBlob",
                      ![id].image =
                          [name |-> sanitizedName,
                           originalFilename |-> call.req.file.name,
                           contentType |-> call.req.file.type,
                           fileSize |-> call.req.file.size, userId |-> user,
                           isAnonymous |-> isAnonymous,
                           expiresAt |-> IF isAnonymous THEN now + imageTtl ELSE NoExpiry,
                           blobKey |-> blobKeyOf(sanitizedName)]]

\* line 227: imageDataStore.set(blobKey, arrayBuffer)
UploadPutBlob(id) ==
    LET call == calls[id]
    IN  /\ call.op = "upload" /\ call.pc = "putBlob"
        /\ CallFrame
        /\ imageData' = Put(imageData, call.image.blobKey, call.req.file.bytes)
        /\ UNCHANGED <<rateLimits, images, expiration, resp>>
        /\ calls' = [calls EXCEPT ![id].pc = "putMeta"]

\* mutant: the metadata of a name that is stored by now is left as it is
UploadPutMetaOnce(id) ==
    LET call == calls[id]
    IN  /\ call.op = "upload" /\ call.pc = "putMeta"
        /\ CallFrame
        /\ images' = IF Has(images, call.image.name) THEN images
                     ELSE Put(images, call.image.name, call.image)
        /\ UNCHANGED <<rateLimits, imageData, expiration, resp>>
        /\ calls' = [calls EXCEPT ![id].pc = "count", ![id].wrote = NextWrite]

\* line 243: imagesStore.setJSON(`image:${sanitizedName}`, imageMetadata)
UploadPutMeta(id) ==
    LET call == calls[id]
    IN  /\ call.op = "upload" /\ call.pc = "putMeta"
        /\ CallFrame
        /\ images' = Put(images, call.image.name, call.image)
        /\ UNCHANGED <<rateLimits, imageData, expiration, resp>>
        /\ calls' = [calls EXCEPT ![id].pc = "count", ![id].wrote = NextWrite]

\* lines 246-250: the counter is written from the rateLimitData and the now
\* of the request start; a permanent upload then returns 201
UploadCount(id) ==
    LET call == calls[id]
        currentCount == IF call.seen.resetAt > call.at THEN call.seen.count ELSE 0
        ephemeral == call.image.isAnonymous /\ call.image.expiresAt # NoExpiry
    IN  /\ call.op = "upload" /\ call.pc = "count"
        /\ CallFrame
        /\ rateLimits' = Put(rateLimits, uploadRateLimitKey(call.ip),
                             [count |-> currentCount + 1,
                              resetAt |-> call.at + uploadWindowMs])
        /\ UNCHANGED <<images, imageData, expiration>>
        /\ IF ephemeral
              THEN /\ resp' = resp
                   /\ calls' = [calls EXCEPT ![id].pc = "putIndex"]
           ELSE CallReturns(id, Response("upload", call.ip, 201,
                                         [name |-> call.image.name,
                                          expiresAt |-> call.image.expiresAt]))

\* mutant: the index entry is keyed by the time of its own write
UploadPutIndexLate(id) ==
    LET call == calls[id]
    IN  /\ call.op = "upload" /\ call.pc = "putIndex"
        /\ CallFrame
        /\ expiration' = Put(expiration, expireKey(now + imageTtl, call.image.name),
                             call.image.name)
        /\ UNCHANGED <<rateLimits, images, imageData>>
        /\ CallReturns(id, Response("upload", call.ip, 201,
                                    [name |-> call.image.name,
                                     expiresAt |-> call.image.expiresAt]))

\* lines 253-256: expirationStore.set(`expire:${expiresAt.getTime()}:${sanitizedName}`),
\* then the notifications and the 201
UploadPutIndex(id) ==
    LET call == calls[id]
    IN  /\ call.op = "upload" /\ call.pc = "putIndex"
        /\ CallFrame
        /\ expiration' = Put(expiration, expireKey(call.image.expiresAt, call.image.name),
                             call.image.name)
        /\ UNCHANGED <<rateLimits, images, imageData>>
        /\ CallReturns(id, Response("upload", call.ip, 201,
                                    [name |-> call.image.name,
                                     expiresAt |-> call.image.expiresAt]))

(* auth handler, store call by store call: a signup with all three fields *)
(* and a password of the required length                                   *)

SignupFrame ==
    UNCHANGED <<now, ticks, rateLimits, images, imageData, expiration, failed, webhook,
                sweeps>>

\* lines 113-134 and 157-163: the read of the failed-attempt counter with
\* its gate, which no request of these runs writes, and
\* emailIndexStore.get(email.toLowerCase()) with its 409
SignupCheckEmail(id, ip, f) ==
    /\ Free(id)
    /\ f.jsonOk /\ f.username # <<>> /\ f.email # <<>>
    /\ Len(f.password) >= minPasswordLength
    /\ SignupFrame
    /\ UNCHANGED <<users, usernameIndex, emailIndex, sessions, tokenSeq, idSeq>>
    /\ IF RateLimitExceeded(rateLimitKey(ip), maxAttempts)
          THEN /\ resp' = Response("signup", ip, 429, Blocked(authRetryAfter))
               /\ calls' = [calls EXCEPT ![id] =
                              [IdleCall EXCEPT !.pc = "done", !.op = "signup", !.ip = ip,
                                               !.req = f, !.at = now, !.status = 429]]
       ELSE IF Has(emailIndex, emailKey(f.email))
          THEN /\ resp' = Response("signup", ip, 409, NoOut)
               /\ calls' = [calls EXCEPT ![id] =
                              [IdleCall EXCEPT !.pc = "done", !.op = "signup", !.ip = ip,
                                               !.req = f, !.at = now, !.status = 409]]
       ELSE /\ resp' = resp
            /\ calls' = [calls EXCEPT ![id] =
                           [IdleCall EXCEPT !.pc = "checkUsername", !.op = "signup",
                                            !.ip = ip, !.req = f, !.at = now]]

\* lines 166-175: usersStore.get(`username:${username.toLowerCase()}`) with
\* its 409, then generateId()
SignupCheckUsername(id) ==
    LET call == calls[id]
    IN  /\ call.op = "signup" /\ call.pc = "checkUsername"
        /\ SignupFrame
        /\ UNCHANGED <<users, usernameIndex, emailIndex, sessions, tokenSeq>>
        /\ IF Has(usernameIndex, usernameKey(call.req.username))
              THEN /\ CallReturns(id, Response("signup", call.ip, 409, NoOut))
                   /\ idSeq' = idSeq
           ELSE /\ resp' = resp
                /\ idSeq' = generateId
                /\ calls' = [calls EXCEPT ![id].pc = "putUser", ![id].user = generateId]

\* mutant: the username index is written where the account record should be
SignupPutUserLate(id) ==
    LET call == calls[id]
    IN  /\ call.op = "signup" /\ call.pc = "putUser"
        /\ SignupFrame
        /\ usernameIndex' = Put(usernameIndex, usernameKey(call.req.username), call.user)
        /\ UNCHANGED <<users, emailIndex, sessions, tokenSeq, idSeq, resp>>
        /\ calls' = [calls EXCEPT ![id].pc = "putUsername"]

\* line 187: usersStore.setJSON(`user:${userId}`, user)
SignupPutUser(id) ==
    LET call == calls[id]
    IN  /\ call.op = "signup" /\ call.pc = "putUser"
        /\ SignupFrame
        /\ users' = Put(users, call.user,
                        [id |-> call.user, username |-> call.req.username,
                         email |-> call.req.email,
                         passwordHash |-> bcryptHash(call.req.password), lastLogin |-> 0])
        /\ UNCHANGED <<usernameIndex, emailIndex, sessions, tokenSeq, idSeq, resp>>
        /\ calls' = [calls EXCEPT ![id].pc = "putUsername"]

\* line 189: usersStore.set(`username:${username.toLowerCase()}`, userId)
SignupPutUsername(id) ==
    LET call == calls[id]
    IN  /\ call.op = "signup" /\ call.pc = "putUsername"
        /\ SignupFrame
        /\ usernameIndex' = Put(usernameIndex, usernameKey(call.req.username), call.user)
        /\ UNCHANGED <<users, emailIndex, sessions, tokenSeq, idSeq, resp>>
        /\ calls' = [calls EXCEPT ![id].pc = "putEmail", ![id].wroteName = NextWrite]

\* line 191: emailIndexStore.set(email.toLowerCase(), userId)
SignupPutEmail(id) ==
    LET call == calls[id]
    IN  /\ call.op = "signup" /\ call.pc = "putEmail"
        /\ SignupFrame
        /\ emailIndex' = Put(emailIndex, emailKey(call.req.email), call.user)
        /\ UNCHANGED <<users, usernameIndex, sessions, tokenSeq, idSeq, resp>>
        /\ calls' = [calls EXCEPT ![id].pc = "putSession", ![id].wrote = NextWrite]

\* lines 193-224: generateToken(), sessionsStore.setJSON, the notification
\* and the 201
SignupPutSession(id) ==
    LET call == calls[id]
        token == generateToken
    IN  /\ call.op = "signup" /\ call.pc = "putSession"
        /\ tokenSeq < MaxTokens
        /\ SignupFrame
        /\ sessions' = Put(sessions, token, NewSession(call.user, token))
        /\ tokenSeq' = token
        /\ UNCHANGED <<users, usernameIndex, emailIndex, idSeq>>
        /\ CallReturns(id, Response("signup", call.ip, 201,
                                    [user |-> call.user, token |-> token]))

\* lines 187-203 and 441-447: the store write the signup has come to throws;
\* the catch of the handler answers 500 and what was written before stays
SignupThrows(id) ==
    LET call == calls[id]
    IN  /\ call.op = "signup"
        /\ call.pc \in {"putUser", "putUsername", "putEmail", "putSession"}
        /\ SignupFrame
        /\ UNCHANGED <<users, usernameIndex, emailIndex, sessions, tokenSeq, idSeq>>
        /\ CallReturns(id, Response("signup", call.ip, 500, NoOut))

(* auth handler, store call by store call: a login that fails *)

\* lines 113-134: the read of the failed-attempt counter, const now, and the
\* gate; a login with both fields goes on to the lookup
LoginBegin(id, ip, f) ==
    /\ Free(id)
    /\ f.jsonOk /\ f.email # <<>> /\ f.password # <<>>
    /\ CallFrame
    /\ UNCHANGED <<rateLimits, images, imageData, expiration>>
    /\ IF RateLimitExceeded(rateLimitKey(ip), maxAttempts)
          THEN /\ resp' = Response("login", ip, 429, Blocked(authRetryAfter))
               /\ calls' = [calls EXCEPT ![id] =
                              [IdleCall EXCEPT !.pc = "done", !.op = "login", !.ip = ip,
                                               !.req = f, !.at = now, !.status = 429]]
       ELSE /\ resp' = resp
            /\ calls' = [calls EXCEPT ![id] =
                           [IdleCall EXCEPT !.pc = "lookup", !.op = "login", !.ip = ip,
                                            !.req = f, !.at = now,
                                            !.seen = CounterRead(rateLimitKey(ip))]]

\* lines 243-251 and 285-295: the email is not in the index, or the password
\* does not match; the counter is written from rateLimitData and now, both
\* read when the request started
LoginFail(id) ==
    LET call == calls[id]
        email == emailKey(call.req.email)
    IN  /\ call.op = "login" /\ call.pc = "lookup"
        /\ IF Has(emailIndex, email)
              THEN /\ Has(users, emailIndex[email])
                   /\ ~bcryptCompare(call.req.password,
                                     users[emailIndex[email]].passwordHash)
           ELSE TRUE
        /\ UNCHANGED <<now, ticks, users, usernameIndex, emailIndex, sessions, tokenSeq,
                       idSeq, webhook, sweeps, images, imageData, expiration>>
        /\ rateLimits' = Put(rateLimits, rateLimitKey(call.ip),
                             [count |-> call.seen.count + 1,
                              resetAt |-> call.at + authWindowMs])
        /\ failed' = FailedLogin(call.ip)
        /\ CallReturns(id, Response("login", call.ip, 401, InvalidCredentials))

----------------------------------------------------------------------------
(* The clock *)

Tick(d) ==
    /\ ticks < MaxTicks
    /\ now' = now + d
    /\ ticks' = ticks + 1
    /\ UNCHANGED <<users, usernameIndex, emailIndex, sessions, rateLimits, images,
                   imageData, expiration, tokenSeq, idSeq, failed, resp, webhook,
                   sweeps, calls>>

----------------------------------------------------------------------------
(* Inputs.  A request whose body does not parse is sent once per handler;  *)
(* what else it carries cannot matter.                                      *)

\* the client addresses that send requests
Clients == {"1.2.3.4"}

secret1 == <<"s", "e", "c", "r", "e", "t", "1">>

wrong1 == <<"w", "r", "o", "n", "g", "1">>

SignupForm(jsonOk, username, email, password) ==
    [jsonOk |-> jsonOk, username |-> username, email |-> email, password |-> password]

\* two accounts that can coexist in either case mix, the clashes between
\* them, and the forms that fail validation
SignupForms ==
    {SignupForm(TRUE, <<"u">>, <<"a">>, secret1),
     SignupForm(TRUE, <<"U">>, <<"b">>, secret1),
     SignupForm(TRUE, <<"v">>, <<"A">>, secret1),
     SignupForm(TRUE, <<"v">>, <<"b">>, secret1),
     SignupForm(TRUE, <<>>, <<"a">>, secret1),
     SignupForm(TRUE, <<"u">>, <<>>, secret1),
     SignupForm(TRUE, <<"u">>, <<"a">>, <<>>),
     SignupForm(TRUE, <<"v">>, <<"b">>, <<"s", "h", "o", "r", "t">>),
     SignupForm(FALSE, <<>>, <<>>, <<>>)}

LoginForm(jsonOk, email, password) ==
    [jsonOk |-> jsonOk, email |-> email, password |-> password]

LoginForms ==
    {LoginForm(TRUE, email, password) :
        email \in {<<>>, <<"a">>, <<"A">>, <<"b">>}, password \in {<<>>, wrong1, secret1}}
    \cup {LoginForm(FALSE, <<>>, <<>>)}

Cookies == 0..MaxTokens

CookieForms == {[jsonOk |-> TRUE, cookie |-> c] : c \in Cookies}
                 \cup {[jsonOk |-> FALSE, cookie |-> c] : c \in {0, 1}}

VerifyForms == {[jsonOk |-> TRUE, cookie |-> c, bodyToken |-> b] :
                   c \in Cookies, b \in Cookies}
                 \cup {[jsonOk |-> FALSE, cookie |-> c, bodyToken |-> 0] : c \in {0, 1}}

pngFile == [name |-> "cat.png", type |-> "image/png", size |-> 2048, bytes |-> "png-bytes"]

gifFile == [name |-> "cat.gif", type |-> "image/gif", size |-> 4096, bytes |-> "gif-bytes"]

txtFile == [name |-> "notes.txt", type |-> "text/plain", size |-> 10, bytes |-> "text"]

hugeFile == [name |-> "huge.png", type |-> "image/png", size |-> maxSize + 1, bytes |-> "huge"]

cat == <<"c", "a", "t">>

Cat == <<"C", "a", "t", "!">>

dog == <<"d", "o", "g">>

UploadForm(formOk, file, name, anonymous, cookie) ==
    [formOk |-> formOk, file |-> file, name |-> name, anonymous |-> anonymous,
     cookie |-> cookie]

\* an anonymous visitor, a visitor who leaves the box unticked, a logged-in
\* user (name differing from cat only in what sanitizing removes), a second
\* resource, an unknown cookie, and the requests validation turns away
UploadForms ==
    {UploadForm(TRUE, pngFile, cat, TRUE, 0),
     UploadForm(TRUE, pngFile, cat, FALSE, 0),
     UploadForm(TRUE, gifFile, Cat, FALSE, 1),
     UploadForm(TRUE, pngFile, dog, TRUE, 1),
     UploadForm(TRUE, gifFile, dog, FALSE, 2)}
    \cup {UploadForm(TRUE, file, cat, TRUE, 0) : file \in {NoFile, txtFile, hugeFile}}
    \cup {UploadForm(TRUE, pngFile, name, TRUE, 0) : name \in {<<>>, <<" ">>, <<"!">>}}
    \cup {UploadForm(FALSE, NoFile, <<>>, TRUE, 0)}

FetchForm(name, isRawPath, rawParam, acceptsHtml, isDiscordBot) ==
    [name |-> name, isRawPath |-> isRawPath, rawParam |-> rawParam,
     acceptsHtml |-> acceptsHtml, isDiscordBot |-> isDiscordBot]

\* a plain GET, a browser, a browser asking for ?raw or /img/raw/, Discord's bot
FetchForms ==
    {FetchForm(cat, f[1], f[2], f[3], f[4]) :
        f \in {<<FALSE, FALSE, FALSE, FALSE>>, <<FALSE, FALSE, TRUE, FALSE>>,
               <<FALSE, TRUE, TRUE, FALSE>>, <<TRUE, FALSE, TRUE, FALSE>>,
               <<FALSE, FALSE, TRUE, TRUE>>}}
    \cup {FetchForm(dog, FALSE, FALSE, FALSE, FALSE)}

----------------------------------------------------------------------------
(* The specifications.  Every one starts from empty stores and takes the   *)
(* handlers as they are; they differ in the requests they send.            *)

NoResponse == [op |-> "none", ip |-> "none", at |-> 0, status |-> 0, out |-> NoOut]

Init ==
    /\ now = 0
    /\ ticks = 0
    /\ users = EmptyStore
    /\ usernameIndex = EmptyStore
    /\ emailIndex = EmptyStore
    /\ sessions = EmptyStore
    /\ rateLimits = EmptyStore
    /\ images = EmptyStore
    /\ imageData = EmptyStore
    /\ expiration = EmptyStore
    /\ tokenSeq = 0
    /\ idSeq = 0
    /\ failed = EmptyStore
    /\ resp = NoResponse
    /\ webhook = "up"
    /\ sweeps = [id \in SweepIds |-> IdleRun]
    /\ calls = [id \in CallIds |-> IdleCall]

\* the counters of a state stay within n (a bound on the runs explored)
CountersWithin(n) == \A key \in DOMAIN rateLimits : rateLimits[key].count <= n

(* SpecAuth: the auth handler, with the clock stepping past session expiry *)
NextAuth ==
    \/ \E ip \in Clients, f \in SignupForms :
          Signup(ip, f.jsonOk, f.username, f.email, f.password)
    \/ \E ip \in Clients, f \in LoginForms :
          Login(ip, f.jsonOk, f.email, f.password) /\ CountersWithin(MaxFailed)'
    \/ \E ip \in Clients, f \in CookieForms :
          Logout(ip, f.jsonOk, f.cookie)
    \/ \E ip \in Clients, f \in VerifyForms :
          Verify(ip, f.jsonOk, f.cookie, f.bodyToken)
    \/ \E d \in {1, sessionTtl} : Tick(d)

SpecAuth == Init /\ [][NextAuth]_vars

(* SpecImage: upload, fetch and sweep, with one account to upload as (and *)
(* to verify the session of), and the clock stepping past image and       *)
(* session expiry                                                          *)
NextImage ==
    \/ \E ip \in Clients : Signup(ip, TRUE, <<"u">>, <<"a">>, secret1)
    \/ \E ip \in Clients : Verify(ip, TRUE, 1, NoToken)
    \/ \E ip \in Clients, f \in UploadForms :
          Upload(ip, f.formOk, f.file, f.name, f.anonymous, f.cookie)
    \/ \E ip \in Clients, f \in FetchForms :
          Fetch(ip, f.name, f.isRawPath, f.rawParam, f.acceptsHtml, f.isDiscordBot)
    \/ Sweep
    \/ \E d \in {1, imageTtl} : Tick(d)

SpecImage == Init /\ [][NextImage]_vars

(* SpecRate: one client address against each blocking limit, one limit at *)
(* a time (failed logins while nothing is uploaded, uploads while no       *)
(* account exists).  Every upload that may succeed takes a name not used   *)
(* before: names are interchangeable, and a used one only answers 409.     *)
FloodName(k) == [i \in 1..k |-> "a"]

FloodNames == {FloodName(Cardinality(DOMAIN images) + 1)}
                \cup {FloodName(k) : k \in {1} \cap {Cardinality(DOMAIN images)}}
                \cup {<<"!">>}

AuthOnly == images = EmptyStore

UploadOnly == users = EmptyStore /\ \A ip \in Clients : ~Has(rateLimits, rateLimitKey(ip))

RateLoginForms ==
    {LoginForm(TRUE, <<"a">>, wrong1), LoginForm(TRUE, <<"b">>, secret1),
     LoginForm(TRUE, <<"A">>, secret1)}

NextRate ==
    \/ \E ip \in Clients : AuthOnly /\ Signup(ip, TRUE, <<"u">>, <<"a">>, secret1)
    \/ \E ip \in Clients, f \in RateLoginForms :
          AuthOnly /\ Login(ip, f.jsonOk, f.email, f.password)
    \/ \E ip \in Clients, f \in CookieForms :
          AuthOnly /\ Logout(ip, f.jsonOk, f.cookie)
    \/ \E ip \in Clients, f \in VerifyForms :
          AuthOnly /\ Verify(ip, f.jsonOk, f.cookie, f.bodyToken)
    \/ \E ip \in Clients, name \in FloodNames :
          UploadOnly /\ Upload(ip, TRUE, pngFile, name, TRUE, 0)
    \/ \E d \in {1, authWindowMs} : AuthOnly /\ Tick(d)
    \/ ~AuthOnly /\ Tick(1)

SpecRate == Init /\ [][NextRate]_vars

(* SpecFault: every handler, run in each environment: with the sink        *)
(* answering, rejecting or hanging, and with a store operation failing.    *)
FaultSignupForms ==
    {SignupForm(TRUE, <<"u">>, <<"a">>, secret1),
     SignupForm(TRUE, <<"v">>, <<"A">>, secret1),
     SignupForm(TRUE, <<"v">>, <<"b">>, <<"s", "h", "o", "r", "t">>)}

FaultLoginForms ==
    {LoginForm(TRUE, <<"a">>, secret1), LoginForm(TRUE, <<"a">>, wrong1),
     LoginForm(TRUE, <<"b">>, secret1), LoginForm(TRUE, <<"a">>, <<>>)}

FaultCookieForms == {[jsonOk |-> TRUE, cookie |-> c] : c \in {0, 1}}

FaultUploadForms ==
    {UploadForm(TRUE, pngFile, cat, TRUE, 0),
     UploadForm(TRUE, pngFile, dog, TRUE, 0),
     UploadForm(TRUE, txtFile, cat, TRUE, 0)}

FaultFetchForms ==
    {FetchForm(cat, FALSE, FALSE, FALSE, FALSE), FetchForm(cat, FALSE, FALSE, TRUE, TRUE),
     FetchForm(dog, FALSE, FALSE, FALSE, FALSE)}

SinkEnvs == {Calm, Env("failing", "none"), Env("hung", "none")}

GateFault == Env("up", "rateLimitRead")

StoreFault == Env("up", "store")

AuthEnvs == SinkEnvs \cup {GateFault, StoreFault}

\* the runs explored use the auth handler or the three image functions
AuthRun ==
    /\ images = EmptyStore
    /\ \A key \in DOMAIN rateLimits : key[1] = "ratelimit"

ImageRun ==
    /\ users = EmptyStore
    /\ \A key \in DOMAIN rateLimits : key[1] # "ratelimit"

NextFault ==
    \/ \E env \in AuthEnvs, ip \in Clients, f \in FaultSignupForms :
          AuthRun /\ SignupUnder(env, ip, f.jsonOk, f.username, f.email, f.password)
    \/ \E env \in AuthEnvs \cup {Env("up", "lastLoginWrite")},
          ip \in Clients, f \in FaultLoginForms :
          /\ AuthRun
          /\ LoginUnder(env, ip, f.jsonOk, f.email, f.password)
          /\ CountersWithin(MaxFailed)'
    \/ \E env \in AuthEnvs, ip \in Clients, f \in FaultCookieForms :
          AuthRun /\ LogoutUnder(env, ip, f.jsonOk, f.cookie)
    \/ \E env \in AuthEnvs, ip \in Clients :
          AuthRun /\ VerifyUnder(env, ip, TRUE, 1, NoToken)
    \/ \E env \in AuthEnvs, ip \in Clients, f \in FaultUploadForms :
          /\ ImageRun
          /\ UploadUnder(env, ip, f.formOk, f.file, f.name, f.anonymous, f.cookie)
          /\ CountersWithin(MaxCounted)'
    \/ \E env \in AuthEnvs, ip \in Clients, f \in FaultFetchForms :
          /\ ImageRun
          /\ FetchUnder(env, ip, f.name, f.isRawPath, f.rawParam, f.acceptsHtml, f.isDiscordBot)
    \/ \E env \in SinkEnvs \cup {Env("up", "list")} :
          ImageRun /\ SweepUnder(env, NoEntry, "get")
    \/ \E bad \in DueEntries, op \in EntryOps :
          ImageRun /\ SweepUnder(Env("up", "entry"), bad, op)
    \/ Tick(imageTtl)

SpecFault == Init /\ [][NextFault]_vars

(* SpecSweep: two runs of the cleanup handler over one index, interleaved *)
(* store call by store call.  The index is first filled by uploads, lazy   *)
(* expiry and sweeps that failed on an entry; nothing else runs once a     *)
(* sweep has started.                                                      *)
NoSweepYet == \A id \in SweepIds : sweeps[id].pc = "idle"

SweepUploadForms ==
    {UploadForm(TRUE, pngFile, cat, TRUE, 0), UploadForm(TRUE, pngFile, dog, TRUE, 0)}

NextSweep ==
    \/ \E ip \in Clients, f \in SweepUploadForms :
          /\ NoSweepYet
          /\ Upload(ip, f.formOk, f.file, f.name, f.anonymous, f.cookie)
          /\ CountersWithin(MaxCounted)'
    \/ \E ip \in Clients : NoSweepYet /\ Fetch(ip, cat, FALSE, FALSE, FALSE, FALSE)
    \/ \E bad \in DueEntries, op \in EntryOps :
          NoSweepYet /\ SweepUnder(Env("up", "entry"), bad, op)
    \/ \E d \in {1, imageTtl} : NoSweepYet /\ Tick(d)
    \/ \E id \in SweepIds : SweepList(id)
    \/ \E id \in SweepIds : SweepGet(id)
    \/ \E id \in SweepIds : SweepDeleteBlob(id)
    \/ \E id \in SweepIds : SweepDeleteMeta(id)
    \/ \E id \in SweepIds : SweepDeleteIndex(id)

SpecSweep == Init /\ [][NextSweep]_vars

(* SpecRace: one run of the cleanup handler, store call by store call,    *)
(* among uploads (ephemeral and permanent), fetches and the clock.         *)
RaceUploadForms ==
    {UploadForm(TRUE, pngFile, cat, TRUE, 0), UploadForm(TRUE, pngFile, dog, FALSE, 1)}

NextRace ==
    \/ \E ip \in Clients : Signup(ip, TRUE, <<"u">>, <<"a">>, secret1)
    \/ \E ip \in Clients, f \in RaceUploadForms :
          /\ Upload(ip, f.formOk, f.file, f.name, f.anonymous, f.cookie)
          /\ CountersWithin(MaxCounted)'
    \/ \E ip \in Clients, name \in {cat, dog} :
          Fetch(ip, name, FALSE, FALSE, FALSE, FALSE)
    \/ \E d \in {1, imageTtl} : Tick(d)
    \/ SweepList(1)
    \/ SweepGet(1)
    \/ SweepDeleteBlob(1)
    \/ SweepDeleteMeta(1)
    \/ SweepDeleteIndex(1)

SpecRace == Init /\ [][NextRace]_vars

----------------------------------------------------------------------------
(* SpecPurge: one run of the cleanup handler and one fetch, both store     *)
(* call by store call, after uploads and the clock have set the stores up. *)
NothingStarted == sweeps[1].pc = "idle" /\ calls[1].pc = "idle"

PurgeFetchForms == {FetchForm(cat, FALSE, FALSE, FALSE, FALSE)}

NextPurge ==
    \/ \E ip \in Clients, f \in RaceUploadForms :
          /\ NothingStarted
          /\ Upload(ip, f.formOk, f.file, f.name, f.anonymous, f.cookie)
          /\ CountersWithin(MaxCounted)'
    \/ \E d \in {1, imageTtl} : Tick(d)
    \/ SweepList(1)
    \/ SweepGet(1)
    \/ SweepDeleteBlob(1)
    \/ SweepDeleteMeta(1)
    \/ SweepDeleteIndex(1)
    \/ \E ip \in Clients, f \in PurgeFetchForms : calls[1].pc = "idle" /\ FetchGet(1, ip, f)
    \/ FetchPayload(1)
    \/ FetchDeleteBlob(1)
    \/ FetchDeleteMeta(1)
    \/ FetchDeleteIndex(1)

SpecPurge == Init /\ [][NextPurge]_vars

(* SpecFlood: failed logins of one address, two requests in flight at a   *)
(* time, within one window.                                                *)

\* the failed logins followed (bounds the history)
MaxEvents == 21

NextFlood ==
    \/ \E id \in CallIds, ip \in Clients :
          LoginBegin(id, ip, LoginForm(TRUE, <<"a">>, wrong1))
    \/ \E id \in CallIds :
          /\ LoginFail(id)
          /\ failed'[calls[id].ip].n <= MaxEvents

SpecFlood == Init /\ [][NextFlood]_vars

(* SpecDup: uploads and signups, two requests in flight at a time and   *)
(* store call by store call, among whole fetches and sweeps and the clock. *)
DupUploadForms ==
    {UploadForm(TRUE, pngFile, cat, TRUE, 0), UploadForm(TRUE, gifFile, Cat, TRUE, 0)}

DupSignupForms ==
    {SignupForm(TRUE, <<"u">>, <<"a">>, secret1),
     SignupForm(TRUE, <<"U">>, <<"b">>, secret1),
     SignupForm(TRUE, <<"v">>, <<"A">>, secret1)}

\* the runs explored are runs of signups or runs of the image functions
SignupsOnly ==
    /\ images = EmptyStore /\ rateLimits = EmptyStore
    /\ \A id \in CallIds : calls[id].op \in {"none", "signup"}

ImagesOnly ==
    /\ users = EmptyStore
    /\ \A id \in CallIds : calls[id].op \in {"none", "upload"}

\* each slot takes one request, the first slot first
Unused(id) == calls[id].pc = "idle" /\ \A other \in 1..(id - 1) : calls[other].pc # "idle"

NextDup ==
    \/ \E id \in CallIds, ip \in Clients, f \in DupUploadForms :
          ImagesOnly /\ Unused(id) /\ UploadBegin(id, ip, f)
    \/ \E id \in CallIds : UploadCheck(id)
    \/ \E id \in CallIds : UploadPutBlob(id)
    \/ \E id \in CallIds : UploadPutMeta(id)
    \/ \E id \in CallIds : UploadCount(id) /\ CountersWithin(MaxCounted)'
    \/ \E id \in CallIds : UploadPutIndex(id)
    \/ \E id \in CallIds, ip \in Clients, f \in DupSignupForms :
          SignupsOnly /\ Unused(id) /\ SignupCheckEmail(id, ip, f)
    \/ \E id \in CallIds : SignupCheckUsername(id)
    \/ \E id \in CallIds : SignupPutUser(id)
    \/ \E id \in CallIds : SignupPutUsername(id)
    \/ \E id \in CallIds : SignupPutEmail(id)
    \/ \E id \in CallIds : SignupPutSession(id)
    \/ \E ip \in Clients : ImagesOnly /\ Fetch(ip, cat, FALSE, FALSE, FALSE, FALSE)
    \/ ImagesOnly /\ Sweep
    \/ \E d \in {1, imageTtl} : Tick(d)

SpecDup == Init /\ [][NextDup]_vars

----------------------------------------------------------------------------
(* Properties *)

Lower(s) == [i \in DOMAIN s |-> LowerChar(s[i])]

\* an account already holds this email or this username, compared without case
EmailTaken(email) == \E id \in DOMAIN users : Lower(users[id].email) = Lower(email)

UsernameTaken(username) ==
    \E id \in DOMAIN users : Lower(users[id].username) = Lower(username)

ValidSignup(f) ==
    /\ f.jsonOk
    /\ f.username # <<>> /\ f.email # <<>>
    /\ Len(f.password) >= 6

NotBlocked(ip) ==
    ~(Has(rateLimits, rateLimitKey(ip)) /\ rateLimits[rateLimitKey(ip)].resetAt > now
      /\ rateLimits[rateLimitKey(ip)].count >= 10)

\* C1: a valid signup (well-formed, not rate-limited) whose lower-cased email
\* and username are both unused creates exactly one account record, to which
\* emailIndex[lower(email)] and usernameIndex[lower(username)] both point; one
\* that reuses an email or a username of an existing account, compared without
\* case, is answered 409 and writes no account, no index entry and no session.
C1_SignupUnique ==
    [][\A ip \in Clients, f \in SignupForms :
         (resp'.op = "signup" /\ ValidSignup(f) /\ NotBlocked(ip)
            /\ Signup(ip, f.jsonOk, f.username, f.email, f.password))
         => IF EmailTaken(f.email) \/ UsernameTaken(f.username)
            THEN /\ resp'.status = 409
                 /\ UNCHANGED <<users, usernameIndex, emailIndex, sessions>>
            ELSE /\ resp'.status = 201
                 /\ \E id \in DOMAIN users' \ DOMAIN users :
                      /\ DOMAIN users' = DOMAIN users \cup {id}
                      /\ users'[id].email = f.email
                      /\ users'[id].username = f.username
                      /\ Has(emailIndex', Lower(f.email))
                      /\ emailIndex'[Lower(f.email)] = id
                      /\ Has(usernameIndex', Lower(f.username))
                      /\ usernameIndex'[Lower(f.username)] = id
                 /\ \A id \in DOMAIN users : users'[id] = users[id]
      ]_vars

\* two accounts exist, each reachable through both indices, and a further
\* signup has just been refused as a duplicate
C1_Witness ==
    /\ resp.op = "signup" /\ resp.status = 409
    /\ Cardinality(DOMAIN users) = 2
    /\ \A id \in DOMAIN users :
         /\ emailIndex[Lower(users[id].email)] = id
         /\ usernameIndex[Lower(users[id].username)] = id

\* the account registered under this email, compared without case
AccountOf(email) == CHOOSE id \in DOMAIN users : Lower(users[id].email) = Lower(email)

StoredCount(key) == IF Has(rateLimits, key) THEN rateLimits[key].count ELSE 0

\* C2: a login (well-formed, not rate-limited) with an existing email and its
\* correct password is answered 200 with that account and a session issued by
\* this request; with an existing email and a wrong password it is answered
\* 401 and the failed-auth counter stored for the client address is exactly
\* one greater than it was before the request.
C2_LoginOutcome ==
    [][\A ip \in Clients, f \in LoginForms :
         (resp'.op = "login" /\ f.jsonOk /\ f.password # <<>> /\ NotBlocked(ip)
            /\ EmailTaken(f.email) /\ Login(ip, f.jsonOk, f.email, f.password))
         => IF users[AccountOf(f.email)].passwordHash = <<"bcrypt", f.password>>
            THEN /\ resp'.status = 200
                 /\ resp'.out.user = AccountOf(f.email)
                 /\ ~Has(sessions, resp'.out.token)
                 /\ Has(sessions', resp'.out.token)
                 /\ sessions'[resp'.out.token].userId = AccountOf(f.email)
                 /\ sessions'[resp'.out.token].expiresAt > now
            ELSE /\ resp'.status = 401
                 /\ UNCHANGED sessions
                 /\ Has(rateLimits', rateLimitKey(ip))
                 /\ rateLimits'[rateLimitKey(ip)].count = StoredCount(rateLimitKey(ip)) + 1
      ]_vars

\* the third wrong-password login in a row, started with no counter, has been
\* answered 401 and has left the count at 3
C2_Witness ==
    /\ resp.op = "login" /\ resp.status = 401
    /\ \E ip \in Clients :
         /\ Has(failed, ip) /\ failed[ip].n = 3
         /\ users # EmptyStore
         /\ rateLimits[rateLimitKey(ip)].count = 3

\* an upload that passes the handler's validation
ValidUpload(f) ==
    /\ f.formOk /\ f.file # NoFile
    /\ f.name # <<>> /\ ~IsBlank(f.name)
    /\ f.file.type \in validTypes /\ f.file.size <= 10 * 1024 * 1024
    /\ sanitizeName(f.name) # <<>>

ValidUploadForms == {f \in UploadForms : ValidUpload(f)}

\* the name each valid upload is stored under
SanitizedName == [f \in ValidUploadForms |-> sanitizeName(f.name)]

UploadNotBlocked(ip) ==
    ~(Has(rateLimits, uploadRateLimitKey(ip))
      /\ rateLimits[uploadRateLimitKey(ip)].resetAt > now
      /\ rateLimits[uploadRateLimitKey(ip)].count >= 50)

\* C3: on every path that resolves a session token (verify, and the session
\* lookup of upload), a token presented no later than its expiresAt resolves
\* to the owning account; presented after expiresAt it is rejected and the
\* session record is absent from the store afterwards.
C3_ExpiredSessionPurged ==
    [][/\ \A ip \in Clients, f \in UploadForms :
            (resp'.op = "upload" /\ resp'.status = 201 /\ f.cookie # NoToken
               /\ Has(sessions, f.cookie)
               /\ Upload(ip, f.formOk, f.file, f.name, f.anonymous, f.cookie))
            => IF sessions[f.cookie].expiresAt < now
               THEN /\ images'[resp'.out.name].userId = 0
                    /\ ~Has(sessions', f.cookie)
               ELSE images'[resp'.out.name].userId = sessions[f.cookie].userId
       /\ \A ip \in Clients, f \in VerifyForms :
            (resp'.op = "verify" /\ resp'.status = 200 /\ f.cookie # NoToken
               /\ Has(sessions, f.cookie)
               /\ Verify(ip, f.jsonOk, f.cookie, f.bodyToken))
            => IF sessions[f.cookie].expiresAt < now
               THEN /\ ~resp'.out.authenticated
                    /\ ~Has(sessions', f.cookie)
               ELSE /\ resp'.out.authenticated
                    /\ resp'.out.user = sessions[f.cookie].userId
      ]_vars

----------------------------------------------------------------------------
\* a request handled by one of these handlers for this address (the clock
\* does not move while a request is handled)
Handled(ops, ip) == now' = now /\ resp'.op \in ops /\ resp'.ip = ip

AuthOps == {"signup", "login", "logout", "verify"}

FailedSoFar(ip) == IF Has(failed, ip) THEN failed[ip].n ELSE 0

\* every failed login so far happened less than one window (15 min) ago
InFailedWindow(ip) == Has(failed, ip) => now < failed[ip].first + 15 * 60

\* every upload so far happened less than one window (60 min) ago; blobKey
\* holds the time of the upload
InUploadWindow == \A n \in DOMAIN images : now < images[n].blobKey[2] + 60 * 60

\* C4: starting with no counter, while fewer than `limit` counted events of an
\* address lie within one window (10 failed logins in 15 min, 50 uploads in
\* 60 min) no request of that address is blocked, and once `limit` of them do,
\* the next request within that window is answered 429.
C4_LimitThenBlock ==
    [][\A ip \in Clients :
         /\ (Handled(AuthOps, ip) /\ InFailedWindow(ip))
            => /\ FailedSoFar(ip) <= 10
               /\ FailedSoFar(ip) < 10 => resp'.status # 429
               /\ FailedSoFar(ip) = 10 => resp'.status = 429
         /\ (Handled({"upload"}, ip) /\ InUploadWindow)
            => /\ Cardinality(DOMAIN images) <= 50
               /\ Cardinality(DOMAIN images) < 50 => resp'.status # 429
               /\ Cardinality(DOMAIN images) = 50 => resp'.status = 429
      ]_vars

\* fifty uploads in one window are stored and the fifty-first has been blocked
C4_Witness ==
    /\ resp.op = "upload" /\ resp.status = 429
    /\ Cardinality(DOMAIN images) = 50
    /\ InUploadWindow

\* C5: when a stored counter's window has elapsed (resetAt <= now), the next
\* counted event is allowed and writes the counter back with count = 1,
\* whatever stale count was stored.
C5_ElapsedWindowRestarts ==
    [][\A key \in DOMAIN rateLimits :
         (rateLimits[key].resetAt <= now /\ rateLimits'[key] # rateLimits[key])
         => /\ resp'.status # 429
            /\ rateLimits'[key].count = 1
      ]_vars

----------------------------------------------------------------------------
\* a request that is served the image itself rather than the HTML page
RawRequest(f) == ~f.acceptsHtml \/ f.rawParam \/ f.isRawPath \/ f.isDiscordBot

\* C6: an ephemeral upload at time t0 stores the metadata with expiresAt =
\* t0 + 30 days, the payload and the index entry (t0 + 30 days, name).  While
\* the resource is stored, a fetch before expiresAt is answered 200 (the
\* payload itself for a raw request, the HTML page around it for a browser)
\* and deletes nothing; a fetch after expiresAt is answered 410, and then the
\* metadata record, the payload and that index entry are all absent.
C6_LazyExpiry ==
    [][/\ \A ip \in Clients, f \in UploadForms :
            (resp'.op = "upload" /\ resp'.status = 201
               /\ Upload(ip, f.formOk, f.file, f.name, f.anonymous, f.cookie)
               /\ resp'.out.expiresAt # 0)
            => LET n == resp'.out.name
               IN  /\ images'[n].expiresAt = now + 30 * 24 * 60 * 60
                   /\ Has(imageData', images'[n].blobKey)
                   /\ imageData'[images'[n].blobKey] = f.file.bytes
                   /\ Has(expiration', <<"expire", now + 30 * 24 * 60 * 60, n>>)
       /\ \A ip \in Clients, f \in FetchForms :
            (resp'.op = "fetch" /\ Has(images, f.name) /\ images[f.name].expiresAt # 0
               /\ Fetch(ip, f.name, f.isRawPath, f.rawParam, f.acceptsHtml, f.isDiscordBot))
            => LET image == images[f.name]
               IN  /\ now < image.expiresAt
                      => /\ resp'.status = 200
                         /\ IF RawRequest(f)
                            THEN resp'.out.kind = "image"
                                 /\ resp'.out.body = imageData[image.blobKey]
                            ELSE resp'.out.kind = "html"
                         /\ UNCHANGED <<images, imageData, expiration>>
                   /\ now > image.expiresAt
                      => /\ resp'.status = 410
                         /\ ~Has(images', f.name)
                         /\ ~Has(imageData', image.blobKey)
                         /\ ~Has(expiration', <<"expire", image.expiresAt, f.name>>)
      ]_vars

\* an expired resource has just been fetched: 410, and nothing is left of it
C6_Witness ==
    /\ resp.op = "fetch" /\ resp.status = 410
    /\ images = EmptyStore /\ imageData = EmptyStore /\ expiration = EmptyStore
    /\ now > 30 * 24 * 60 * 60

\* C7: a sweep deletes every due index entry (encoded timestamp <= now)
\* together with its resource's payload and metadata, and leaves every other
\* index entry and its resource's payload and metadata unchanged; a second
\* sweep right after it changes no store key and reports zero purged.
C7_SweepExactAndIdempotent ==
    [][(resp'.op = "sweep" /\ now' = now /\ Sweep)
       => /\ \A key \in DOMAIN expiration :
               IF key[2] <= now
               THEN /\ ~Has(expiration', key)
                    /\ ~Has(images', key[3])
                    /\ Has(images, key[3]) => ~Has(imageData', images[key[3]].blobKey)
               ELSE /\ Has(expiration', key)
                    /\ Has(images, key[3])
                       => /\ Has(images', key[3])
                          /\ images'[key[3]] = images[key[3]]
                          /\ Has(imageData', images[key[3]].blobKey)
                          /\ imageData'[images[key[3]].blobKey]
                               = imageData[images[key[3]].blobKey]
          /\ resp'.out.deleted = Cardinality({key \in DOMAIN expiration : key[2] <= now})
          /\ (resp.op = "sweep" /\ resp.at = now)
             => /\ resp'.out.deleted = 0
                /\ UNCHANGED <<images, imageData, expiration, users, usernameIndex,
                               emailIndex, sessions, rateLimits>>
      ]_vars

\* a sweep over one due and one not-yet-due entry has purged the one and
\* left the other with its resource
C7_Witness ==
    /\ resp.op = "sweep" /\ resp.at = now
    /\ resp.out.found = 2 /\ resp.out.deleted = 1
    /\ \E key \in DOMAIN expiration :
         /\ DOMAIN expiration = {key}
         /\ key[2] > now
         /\ DOMAIN images = {key[3]}
         /\ DOMAIN imageData = {images[key[3]].blobKey}

\* C8: an upload stores its file's content type under the sanitized name n;
\* while that metadata record exists and has not expired, a fetch of n is
\* answered 200 with that content type (as the response's type when the image
\* is served, as the page's og:image:type when the HTML page is), and every
\* later valid upload whose sanitized name is n is answered 409 and leaves the
\* payload store, the metadata, the expiry index and the upload counter
\* unchanged.
C8_NameUnique ==
    [][/\ \A ip \in Clients, f \in ValidUploadForms :
            (resp'.op = "upload" /\ now' = now /\ UploadNotBlocked(ip)
               /\ Upload(ip, f.formOk, f.file, f.name, f.anonymous, f.cookie))
            => IF Has(images, SanitizedName[f])
               THEN /\ resp'.status = 409
                    /\ UNCHANGED <<images, imageData, expiration, rateLimits>>
               ELSE /\ resp'.status = 201
                    /\ images'[SanitizedName[f]].contentType = f.file.type
       /\ \A ip \in Clients, f \in FetchForms :
            (resp'.op = "fetch" /\ now' = now /\ Has(images, f.name)
               /\ (images[f.name].expiresAt = 0 \/ now <= images[f.name].expiresAt)
               /\ Fetch(ip, f.name, f.isRawPath, f.rawParam, f.acceptsHtml, f.isDiscordBot))
            => /\ resp'.status = 200
               /\ IF RawRequest(f)
                  THEN resp'.out.contentType = images[f.name].contentType
                  ELSE resp'.out.ogImageType = images[f.name].contentType
               /\ UNCHANGED images
      ]_vars

\* a permanent image uploaded by a logged-in user is stored and a second
\* upload under its name has just been refused
C8_Witness ==
    /\ resp.op = "upload" /\ resp.status = 409
    /\ \E n \in DOMAIN images :
         /\ images[n].userId # 0 /\ images[n].expiresAt = 0
         /\ images[n].contentType = "image/gif"

----------------------------------------------------------------------------
\* C9: logout has no failure outcome: whatever the presented token and the
\* caller's rate-limit state, a well-formed logout is answered 200 and
\* afterwards no session record exists for that token.
C9_LogoutAlwaysSucceeds ==
    [][\A ip \in Clients, f \in CookieForms :
         (resp'.op = "logout" /\ f.jsonOk /\ Logout(ip, f.jsonOk, f.cookie))
         => /\ resp'.status = 200
            /\ ~Has(sessions', f.cookie)
      ]_vars

\* C10: verify never answers an error status: for every token state and
\* every rate-limit state a well-formed verify is answered 200, with
\* authenticated = true exactly for an unexpired session of an existing
\* account.
C10_VerifyNeverErrors ==
    [][\A ip \in Clients, f \in VerifyForms :
         (resp'.op = "verify" /\ f.jsonOk /\ Verify(ip, f.jsonOk, f.cookie, f.bodyToken))
         => LET token == IF f.cookie # 0 THEN f.cookie ELSE f.bodyToken
            IN  /\ resp'.status = 200
                /\ resp'.out.authenticated
                     = (/\ Has(sessions, token)
                        /\ sessions[token].expiresAt >= now
                        /\ Has(users, sessions[token].userId))
      ]_vars

----------------------------------------------------------------------------
\* what the caller of a failed login sees and what becomes of its counter,
\* as a function of the state before the login only
FailedLoginSeen(ip) ==
    [op |-> "login", ip |-> ip, at |-> now, status |-> 401,
     out |-> [error |-> "Invalid email or password"]]

FailedLoginCounter(ip) ==
    [count |-> StoredCount(<<"ratelimit", ip>>) + 1, resetAt |-> now + 15 * 60]

\* C11: a login that fails because the email is unknown and a login that
\* fails because the password of a registered email is wrong, made in the
\* same state, give the same response (status 401, same body) and change the
\* failed-auth counter in the same way (and nothing else).
C11_FailedLoginUniform ==
    [][\A ip \in Clients, f \in LoginForms :
         (resp'.op = "login" /\ now' = now /\ f.jsonOk
            /\ f.email # <<>> /\ f.password # <<>> /\ NotBlocked(ip)
            /\ (~EmailTaken(f.email)
                \/ users[AccountOf(f.email)].passwordHash # <<"bcrypt", f.password>>)
            /\ Login(ip, f.jsonOk, f.email, f.password))
         => /\ resp' = FailedLoginSeen(ip)
            /\ DOMAIN rateLimits' = DOMAIN rateLimits \cup {<<"ratelimit", ip>>}
            /\ rateLimits'[<<"ratelimit", ip>>] = FailedLoginCounter(ip)
            /\ \A key \in DOMAIN rateLimits \ {<<"ratelimit", ip>>} :
                 rateLimits'[key] = rateLimits[key]
            /\ UNCHANGED <<users, usernameIndex, emailIndex, sessions>>
      ]_vars

\* an account is registered and two logins of the address have failed alike
C11_Witness ==
    /\ users # EmptyStore
    /\ \E ip \in Clients :
         /\ resp = [FailedLoginSeen(ip) EXCEPT !.at = resp.at]
         /\ Has(failed, ip) /\ failed[ip].n = 2
         /\ rateLimits[<<"ratelimit", ip>>].count = 2

RetryKey(op, ip) == IF op = "upload" THEN <<"upload", ip>> ELSE <<"ratelimit", ip>>

\* C12: the retry-after hint of every 429 response equals the time that
\* remains until the window of the caller's stored counter resets.
C12_RetryAfterIsRemaining ==
    [][(resp'.status = 429 /\ now' = now)
       => resp'.out.retryAfter
            = rateLimits[RetryKey(resp'.op, resp'.ip)].resetAt - now
      ]_vars

----------------------------------------------------------------------------
\* the handlers that send notifications
NotifyingOps == {"signup", "login", "logout", "upload", "fetch", "sweep"}

\* C13: the response of a handler never waits for the delivery of a
\* notification: whatever the sink does, and also when it never completes,
\* every run of signup, login, logout, upload, fetch and sweep has produced
\* its response.
C13_ResponseNeverWaits == resp.op \in NotifyingOps => resp.out # Pending

\* every sink call of the run fails: fetch(webhookUrl) rejects
SinkFails == Env("failing", "none")

\* C14: a failure of the notification sink never changes the outcome of the
\* operation that dispatched it: every handler run in which each sink call
\* fails gives the response (status and body) and leaves the stores that
\* the same request gives and leaves when each sink call succeeds.
C14_SinkFailureSwallowed ==
    [][/\ \A ip \in Clients, f \in FaultSignupForms :
            (resp'.op = "signup" /\ webhook' = "failing"
               /\ SignupUnder(SinkFails, ip, f.jsonOk, f.username, f.email, f.password))
            => SignupIn(Calm, ip, f.jsonOk, f.username, f.email, f.password)
       /\ \A ip \in Clients, f \in FaultLoginForms :
            (resp'.op = "login" /\ webhook' = "failing"
               /\ LoginUnder(SinkFails, ip, f.jsonOk, f.email, f.password))
            => LoginIn(Calm, ip, f.jsonOk, f.email, f.password)
       /\ \A ip \in Clients, f \in FaultCookieForms :
            (resp'.op = "logout" /\ webhook' = "failing"
               /\ LogoutUnder(SinkFails, ip, f.jsonOk, f.cookie))
            => LogoutIn(Calm, ip, f.jsonOk, f.cookie)
       /\ \A ip \in Clients, f \in FaultUploadForms :
            (resp'.op = "upload" /\ webhook' = "failing"
               /\ UploadUnder(SinkFails, ip, f.formOk, f.file, f.name, f.anonymous,
                              f.cookie))
            => UploadIn(Calm, ip, f.formOk, f.file, f.name, f.anonymous, f.cookie)
       /\ \A ip \in Clients, f \in FaultFetchForms :
            (resp'.op = "fetch" /\ webhook' = "failing"
               /\ FetchUnder(SinkFails, ip, f.name, f.isRawPath, f.rawParam,
                             f.acceptsHtml, f.isDiscordBot))
            => FetchIn(Calm, ip, f.name, f.isRawPath, f.rawParam, f.acceptsHtml,
                       f.isDiscordBot)
       /\ (resp'.op = "sweep" /\ webhook' = "failing"
             /\ SweepUnder(SinkFails, NoEntry, "get"))
          => SweepIn(Calm, NoEntry, "get")
      ]_vars

\* an upload whose two notifications both failed has stored the image and
\* was answered 201
C14_Witness ==
    /\ webhook = "failing"
    /\ resp.op = "upload" /\ resp.status = 201
    /\ Has(images, cat) /\ Has(imageData, images[cat].blobKey)

----------------------------------------------------------------------------
\* C15: validation and conflict failures are detected before any mutation:
\* a signup, login or upload step answered 400 or 409 leaves every store as
\* it was (accounts, both indices, sessions, counters, payloads, metadata
\* and the expiry index).
C15_RejectedWritesNothing ==
    [][(resp'.op \in {"signup", "login", "upload"} /\ resp'.status \in {400, 409}
          /\ now' = now)
       => UNCHANGED <<users, usernameIndex, emailIndex, sessions, rateLimits,
                      images, imageData, expiration>>
      ]_vars

\* an upload under a name in use was answered 409 and only the upload that
\* stored the image has been counted
C15_Witness ==
    /\ resp.op = "upload" /\ resp.status = 409
    /\ Has(images, cat)
    /\ rateLimits[uploadRateLimitKey(resp.ip)].count = 1

----------------------------------------------------------------------------
\* C16: every failure of a store operation inside a request handler is
\* caught by the handler and answered 500: a run of the auth, upload or image
\* handler whose read of the rate-limit counter throws, and a run whose first
\* store operation after validation throws, both end in a 500 response.
C16_StoreFailureCaught ==
    [][\A ip \in Clients :
         /\ \A f \in FaultSignupForms :
              /\ (resp'.op = "signup"
                    /\ SignupIn(GateFault, ip, f.jsonOk, f.username, f.email, f.password))
                 => resp'.status = 500
              /\ (resp'.op = "signup" /\ ValidSignup(f) /\ NotBlocked(ip)
                    /\ SignupIn(StoreFault, ip, f.jsonOk, f.username, f.email, f.password))
                 => resp'.status = 500
         /\ \A f \in FaultLoginForms :
              (resp'.op = "login" /\ LoginIn(GateFault, ip, f.jsonOk, f.email, f.password))
              => resp'.status = 500
         /\ \A f \in FaultCookieForms :
              (resp'.op = "logout" /\ LogoutIn(GateFault, ip, f.jsonOk, f.cookie))
              => resp'.status = 500
         /\ (resp'.op = "verify" /\ VerifyIn(GateFault, ip, TRUE, 1, NoToken))
            => resp'.status = 500
         /\ \A f \in FaultUploadForms :
              /\ (resp'.op = "upload"
                    /\ UploadIn(GateFault, ip, f.formOk, f.file, f.name, f.anonymous,
                                f.cookie))
                 => resp'.status = 500
              /\ (resp'.op = "upload" /\ ValidUpload(f) /\ UploadNotBlocked(ip)
                    /\ UploadIn(StoreFault, ip, f.formOk, f.file, f.name, f.anonymous,
                                f.cookie))
                 => resp'.status = 500
         /\ \A f \in FaultFetchForms :
              /\ (resp'.op = "fetch" /\ ~Has(images, f.name)
                    /\ FetchIn(GateFault, ip, f.name, f.isRawPath, f.rawParam,
                               f.acceptsHtml, f.isDiscordBot))
                 => resp'.status = 500
              /\ (resp'.op = "fetch"
                    /\ FetchIn(StoreFault, ip, f.name, f.isRawPath, f.rawParam,
                               f.acceptsHtml, f.isDiscordBot))
                 => resp'.status = 500
      ]_vars

----------------------------------------------------------------------------
\* a store call of the per-entry try throws / the listing throws
EntryFault == Env("up", "entry")

ListFault == Env("up", "list")

\* the payload and the metadata stored under a name before the step are gone
Purged(name) ==
    /\ ~Has(images', name)
    /\ Has(images, name) => ~Has(imageData', images[name].blobKey)

\* C17: if a store operation fails while the sweep purges one due entry, the
\* sweep still processes every other due entry of its listing (resource and
\* index entry removed) and returns 200 with the count of the entries it
\* completed; the index entry of the failed entry is still there and still
\* due, so a later sweep retries it; entries not yet due are untouched.  A
\* sweep returns 500 only when the listing itself fails, and then it has
\* changed nothing.
C17_EntryFailureIsolated ==
    [][/\ \A bad \in DueEntries, op \in EntryOps :
            (resp'.op = "sweep" /\ EntryFails(EntryFault, bad, op)
               /\ SweepIn(EntryFault, bad, op))
            => /\ resp'.status = 200
               /\ resp'.out.deleted = Cardinality(DueEntries) - 1
               /\ Has(expiration', bad) /\ IsDue(bad)'
               /\ \A key \in DueEntries \ {bad} :
                    ~Has(expiration', key) /\ Purged(entryName(key))
               /\ \A key \in DOMAIN expiration \ DueEntries :
                    /\ Has(expiration', key)
                    /\ entryName(key) \notin {entryName(due) : due \in DueEntries}
                         => /\ Has(images', entryName(key)) = Has(images, entryName(key))
       /\ (resp'.op = "sweep" /\ now' = now /\ resp'.status = 500)
          => /\ SweepIn(ListFault, NoEntry, "get")
             /\ UNCHANGED <<images, imageData, expiration>>
      ]_vars

\* right after a sweep that completed one entry, another entry is still in
\* the index and due
C17_Witness ==
    /\ resp.op = "sweep" /\ resp.status = 200 /\ resp.at = now
    /\ resp.out.deleted = 1
    /\ DueEntries # {}

----------------------------------------------------------------------------
\* usersStore.setJSON of the lastLogin update throws
TouchFault == Env("up", "lastLoginWrite")

\* C19: a failure of the lastLogin update during a login with correct
\* credentials does not fail the login: the login is still answered 200 and
\* issues a session that resolves to the account.
C19_TouchLoginBestEffort ==
    [][\A ip \in Clients, f \in FaultLoginForms :
         (resp'.op = "login" /\ NotBlocked(ip) /\ EmailTaken(f.email)
            /\ users[AccountOf(f.email)].passwordHash = <<"bcrypt", f.password>>
            /\ LoginIn(TouchFault, ip, f.jsonOk, f.email, f.password))
         => /\ resp'.status = 200
            /\ Has(sessions', resp'.out.token)
            /\ sessions'[resp'.out.token].userId = AccountOf(f.email)
      ]_vars

----------------------------------------------------------------------------
\* what one run of the cleanup handler, alone, makes of the three stores
\* before: every entry not later than at is removed from the index, and so
\* are the metadata and the payload found under the name of such an entry
SweepOutcome(before, at) ==
    LET due == {key \in DOMAIN before[3] : ~(expireTimestamp(key) > at)}
        names == {entryName(key) : key \in due} \cap DOMAIN before[1]
    IN  <<[n \in DOMAIN before[1] \ names |-> before[1][n]],
          [k \in DOMAIN before[2] \ {before[1][n].blobKey : n \in names}
             |-> before[2][k]],
          [key \in DOMAIN before[3] \ due |-> before[3][key]]>>

\* C18: two runs of the sweep over the same index, their store calls
\* interleaved in any order, both return 200 and leave the stores as a
\* single run leaves them (a delete of a key that is already gone changes
\* nothing and is no error).
C18_ConcurrentSweeps ==
    (\A id \in SweepIds : sweeps[id].pc = "done")
    => \A id \in SweepIds :
         /\ sweeps[id].status = 200
         /\ <<images, imageData, expiration>>
              = SweepOutcome(sweeps[id].before, sweeps[id].at)

\* both runs have returned, and each had read the metadata of its last
\* entry before the other deleted it
C18_Witness ==
    /\ \A id \in SweepIds :
         /\ sweeps[id].pc = "done" /\ sweeps[id].status = 200
         /\ sweeps[id].found /\ sweeps[id].deletedCount = 2
    /\ sweeps[1].before = sweeps[2].before

----------------------------------------------------------------------------
\* C20: under any interleaving of uploads, fetches and sweep runs, the
\* metadata or the payload of a resource is deleted only if the expiresAt of
\* that resource is set and has passed: a permanent resource and an
\* ephemeral one that has not yet expired are never deleted.
C20_DeletedOnlyIfExpired ==
    [][\A name \in DOMAIN images :
         (\/ ~Has(images', name)
          \/ Has(imageData, images[name].blobKey)
               /\ ~Has(imageData', images[name].blobKey))
         => /\ images[name].expiresAt # NoExpiry
            /\ images[name].expiresAt <= now
      ]_vars

----------------------------------------------------------------------------
\* the index entry key is an orphan: the resource it was written for is gone
\* (no metadata under its name, or metadata of a later upload of the name,
\* whose own index key is another one)
Orphan(key) ==
    \/ ~Has(images, entryName(key))
    \/ expireKey(images[entryName(key)].expiresAt, entryName(key)) # key

\* the name of the entry key has a due index entry of the stored resource
OwnEntryDue(key) ==
    \E own \in DueEntries : entryName(own) = entryName(key) /\ ~Orphan(own)

\* C21: an orphan index entry is harmless: when a sweep processes it, the
\* index entry is removed and nothing else; no payload and no metadata
\* record is deleted on its account.
C21_OrphanEntryHarmless ==
    [][(resp'.op = "sweep" /\ now' = now /\ SweepIn(Calm, NoEntry, "get"))
       => \A key \in DueEntries :
            (Orphan(key) /\ ~OwnEntryDue(key))
            => /\ ~Has(expiration', key)
               /\ Has(images, entryName(key))
                    => /\ Has(images', entryName(key))
                       /\ Has(imageData, images[entryName(key)].blobKey)
                            => Has(imageData', images[entryName(key)].blobKey)
      ]_vars

----------------------------------------------------------------------------
\* the window of a counter, by the kind of its key
WindowOf(key) ==
    IF key[1] = "upload" THEN uploadWindowMs
    ELSE IF key[1] = "404" THEN notFoundWindowMs
    ELSE authWindowMs

\* C25: a counted event that finds the window of its counter open
\* (now < stored resetAt) writes the counter back with resetAt unchanged;
\* resetAt becomes now + window only when the event finds the counter absent
\* or its window expired.  For the failed-login, upload and not-found
\* counters.
C25_OpenWindowKeepsReset ==
    [][\A key \in DOMAIN rateLimits' :
         (~Has(rateLimits, key) \/ rateLimits'[key] # rateLimits[key])
         => rateLimits'[key].resetAt
              = IF Has(rateLimits, key) /\ now < rateLimits[key].resetAt
                THEN rateLimits[key].resetAt
                ELSE now + WindowOf(key)
      ]_vars

----------------------------------------------------------------------------
\* C26: a request blocked by the rate limiter (429) performs no store write:
\* the caller's count and resetAt, and every other store, are as they were,
\* so repeated requests while blocked neither grow the counter nor postpone
\* the end of the block.
C26_BlockedWritesNothing ==
    [][(resp'.status = 429 /\ now' = now)
       => UNCHANGED <<rateLimits, users, usernameIndex, emailIndex, sessions,
                      images, imageData, expiration>>
      ]_vars

\* a login was answered 429 after ten failed logins, and the counter still
\* reads ten
C26_Witness ==
    /\ resp.op = "login" /\ resp.status = 429
    /\ Has(failed, resp.ip) /\ failed[resp.ip].n = maxAttempts
    /\ rateLimits[rateLimitKey(resp.ip)].count = maxAttempts

----------------------------------------------------------------------------
\* C30: a sweep deletes every listed index entry whose timestamp is at most
\* its start time, whether or not a resource is stored under the name; an
\* entry whose timestamp is later than the start time is not deleted by the
\* sweep, and neither is the resource it was written for.
C30_SweepDeletesExactlyDue ==
    [][(resp'.op = "sweep" /\ now' = now /\ SweepIn(Calm, NoEntry, "get"))
       => \A key \in DOMAIN expiration :
            /\ IsDue(key) => ~Has(expiration', key)
            /\ ~IsDue(key)
                 => /\ Has(expiration', key)
                    /\ ~Orphan(key)
                         => /\ Has(images', entryName(key))
                            /\ images'[entryName(key)] = images[entryName(key)]
                            /\ Has(imageData, images[entryName(key)].blobKey)
                                 => Has(imageData', images[entryName(key)].blobKey)
      ]_vars

----------------------------------------------------------------------------
\* a purge of the name stopped between its payload delete and its metadata
\* delete: the metadata record is stored and its payload is not
PayloadMissing(name) ==
    Has(images, name) /\ ~Has(imageData, images[name].blobKey)

\* a fetch of request f from ip that meets no store failure
FetchOf(ip, f) ==
    /\ now' = now
    /\ resp'.op = "fetch" /\ resp'.ip = ip
    /\ FetchIn(Calm, ip, f.name, f.isRawPath, f.rawParam, f.acceptsHtml, f.isDiscordBot)

\* C29 (as claimed): when a purge stopped after deleting the payload and
\* before deleting the metadata record, a subsequent fetch of the name is
\* answered with the missing-payload error.
C29_MissingPayloadError ==
    [][\A ip \in Clients, f \in FaultFetchForms :
         (PayloadMissing(f.name) /\ FetchOf(ip, f))
         => resp' = Response("fetch", ip, 404, [kind |-> "nodata"])
      ]_vars

\* C29 (amended): when a purge stopped after deleting the payload and before
\* deleting the metadata record, a subsequent fetch of the name never serves
\* it.  If the record's expiresAt has passed, the fetch repeats the purge and
\* answers 410, leaving no metadata record and no index entry of the
\* resource; only if expiresAt has not passed (the purge was a sweep at the
\* very instant of expiresAt) is the fetch answered with the missing-payload
\* error, and then it changes nothing.
C29_ExpiredBeforeMissingPayload ==
    [][\A ip \in Clients, f \in FaultFetchForms :
         (PayloadMissing(f.name) /\ FetchOf(ip, f))
         => LET expiresAt == images[f.name].expiresAt
            IN  IF expiresAt # NoExpiry /\ expiresAt < now
                THEN /\ resp' = Response("fetch", ip, 410, [kind |-> "expired"])
                     /\ ~Has(images', f.name)
                     /\ ~Has(expiration', expireKey(expiresAt, f.name))
                ELSE /\ resp' = Response("fetch", ip, 404, [kind |-> "nodata"])
                     /\ UNCHANGED <<images, imageData, expiration>>
      ]_vars

\* a fetch was answered with the missing-payload error: the metadata record
\* of the name is stored with its index entry, and its payload is gone
C29_Witness ==
    /\ resp = Response("fetch", resp.ip, 404, [kind |-> "nodata"])
    /\ PayloadMissing(cat)
    /\ Has(expiration, expireKey(images[cat].expiresAt, cat))
    /\ now = images[cat].expiresAt

----------------------------------------------------------------------------
\* the resource named cat that the sweep and the fetch of SpecPurge met: the
\* one stored when the sweep listed the index, or else the one the fetch read
Raced ==
    IF Has(sweeps[1].before[1], cat) THEN sweeps[1].before[1][cat] ELSE calls[1].image

\* the sweep and the fetch of cat have both returned, and the resource was
\* ephemeral and past its expiresAt when each of them started
BothPurged ==
    /\ sweeps[1].pc = "done"
    /\ calls[1].pc = "done"
    /\ Raced.expiresAt # NoExpiry
    /\ Raced.expiresAt < sweeps[1].at
    /\ Raced.expiresAt < calls[1].at

\* C27: for an expired ephemeral resource, whatever the interleaving of the
\* store calls of one sweep and of one fetch of it (no upload of the name in
\* between), both return without error (the fetch 410 or 404, the sweep 200)
\* and the payload, the metadata record and the index entry are all absent.
C27_SweepAndLazyExpiryRace ==
    BothPurged
    => /\ calls[1].status \in {410, 404}
       /\ sweeps[1].status = 200
       /\ ~Has(imageData, Raced.blobKey)
       /\ ~Has(images, cat)
       /\ ~Has(expiration, expireKey(Raced.expiresAt, cat))

\* the fetch read the metadata before the sweep deleted it and the sweep
\* read it before the fetch deleted it: both purged the resource, the sweep
\* counted it, the fetch answered 410
C27_Witness ==
    /\ BothPurged
    /\ calls[1].image = Raced
    /\ sweeps[1].found /\ sweeps[1].blobKey = Raced.blobKey
    /\ sweeps[1].at <= calls[1].at
    /\ calls[1].status = 410

\* C28: the lazy expiry and the sweep both delete the payload, then the
\* metadata record, then the index entry: in every state of a purge (no
\* upload of the name in between) a payload is stored only with the metadata
\* record that names it, and the metadata record of an ephemeral resource
\* only with its index entry.
C28_PurgeOrder ==
    /\ \A blobKey \in DOMAIN imageData :
         /\ Has(images, blobKey[3])
         /\ images[blobKey[3]].blobKey = blobKey
    /\ \A name \in DOMAIN images :
         images[name].expiresAt # NoExpiry
         => Has(expiration, expireKey(images[name].expiresAt, name))

\* the sweep has deleted the payload and the fetch the metadata record of
\* the same resource, and neither has deleted the index entry yet
C28_Witness ==
    /\ sweeps[1].pc = "deleteMeta"
    /\ calls[1].pc = "deleteIndex"
    /\ calls[1].image.blobKey = sweeps[1].blobKey
    /\ Has(expiration, expireKey(calls[1].image.expiresAt, cat))

----------------------------------------------------------------------------
\* C24: with at most k requests of one address in flight at any time, the
\* counted events of that address that are allowed within one window never
\* exceed k times the limit: here k is the number of request slots, the
\* events are failed logins (limit 10), and no time passes.
C24_OvershootBounded ==
    \A ip \in Clients :
        Has(failed, ip) => failed[ip].n <= Cardinality(CallIds) * maxAttempts

----------------------------------------------------------------------------
\* no upload is between two of its store calls (fetches and sweeps of
\* SpecDup are whole steps)
Quiescent == \A id \in CallIds : calls[id].pc \in {"idle", "done"}

\* the index entries written for the name
EntriesOf(name) == {key \in DOMAIN expiration : entryName(key) = name}

----------------------------------------------------------------------------
\* both requests have made their existence checks and found the key free
BothPassed ==
    \/ /\ \A id \in CallIds : calls[id].op = "upload" /\ calls[id].image # NoImage
       /\ calls[1].image.name = calls[2].image.name
    \/ /\ \A id \in CallIds : calls[id].op = "signup" /\ calls[id].user # 0
       /\ \/ emailKey(calls[1].req.email) = emailKey(calls[2].req.email)
          \/ usernameKey(calls[1].req.username) = usernameKey(calls[2].req.username)

\* the request whose write of the metadata or email index entry came last
LastWriter == IF calls[1].wrote > calls[2].wrote THEN calls[1] ELSE calls[2]

\* the request whose write of the username index entry came last
LastNameWriter == IF calls[1].wroteName > calls[2].wroteName THEN calls[1] ELSE calls[2]

\* C23: when two requests for one unique key (two uploads of one sanitized
\* name, two signups with one email or one username) have both made their
\* existence check before either wrote, neither is refused, both are
\* answered 201, and once both have returned the record stored under the
\* key is the one written last (for an image: as long as neither upload's
\* expiresAt has been reached).
C23_BothSucceedLastWriteWins ==
    BothPassed
    => /\ \A id \in CallIds : calls[id].status \in {0, 201}
       /\ Quiescent
            => IF calls[1].op = "upload"
               THEN (\A id \in CallIds : now < calls[id].image.expiresAt)
                    => /\ Has(images, LastWriter.image.name)
                       /\ images[LastWriter.image.name] = LastWriter.image
               ELSE /\ emailKey(calls[1].req.email) = emailKey(calls[2].req.email)
                         => emailIndex[emailKey(calls[1].req.email)] = LastWriter.user
                    /\ usernameKey(calls[1].req.username)
                         = usernameKey(calls[2].req.username)
                         => usernameIndex[usernameKey(calls[1].req.username)]
                              = LastNameWriter.user

\* two uploads of the name cat (a PNG, and a GIF sent as "Cat!") were both
\* answered 201; the request that started first wrote its metadata last and
\* its record is the one stored
C23_Witness ==
    /\ BothPassed /\ Quiescent
    /\ \A id \in CallIds : calls[id].op = "upload" /\ calls[id].status = 201
    /\ calls[1].image.contentType # calls[2].image.contentType
    /\ calls[1].wrote > calls[2].wrote
    /\ images[cat] = calls[1].image

----------------------------------------------------------------------------
\* C31: whenever no upload is in progress, every payload in the payload
\* store is the blobKey of some stored metadata record: uploads, fetches and
\* sweeps, concurrent uploads of one name included, leave no payload that
\* nothing can reclaim.
C31_NoDanglingPayload ==
    Quiescent
    => \A blobKey \in DOMAIN imageData :
         \E name \in DOMAIN images : images[name].blobKey = blobKey

----------------------------------------------------------------------------
\* the token was drawn for a session and its record is not stored any more
SessionDeleted(token) == token # NoToken /\ token <= tokenSeq /\ ~Has(sessions, token)

\* C32: a session only moves Active -> Expired -> Deleted or Active ->
\* Deleted: once the record of a token has been deleted (by a logout, or by
\* a verify that found it expired), no later signup, login, logout, verify
\* or clock step stores a record under that token again.
C32_DeletedSessionStaysDeleted ==
    [][\A token \in Cookies : SessionDeleted(token) => SessionDeleted(token)']_vars

\* the session of the signup was deleted and a later login has been given
\* another one
C32_Witness ==
    /\ resp.op = "login" /\ resp.status = 200
    /\ SessionDeleted(1)
    /\ Has(sessions, 2)
    /\ resp.out.token = 2

----------------------------------------------------------------------------
\* the token a logout or verify request presents
Presented(f) ==
    IF f.cookie # NoToken THEN f.cookie
    ELSE IF "bodyToken" \in DOMAIN f THEN f.bodyToken ELSE NoToken

\* C33: an account may hold several sessions at once: a signup or login
\* leaves every stored session record as it is and adds at most the new one;
\* a logout, and a verify that cleans up an expired session, delete at most
\* the record of the token presented and leave every other record as it is.
C33_SessionsIndependent ==
    [][/\ (resp'.op \in {"signup", "login"} /\ now' = now)
          => \A token \in DOMAIN sessions :
               Has(sessions', token) /\ sessions'[token] = sessions[token]
       /\ \A ip \in Clients, f \in CookieForms \cup VerifyForms :
            (/\ sessions' # sessions
             /\ resp'.op \in {"logout", "verify"}
             /\ IF "bodyToken" \in DOMAIN f
                   THEN Verify(ip, f.jsonOk, f.cookie, f.bodyToken)
                ELSE Logout(ip, f.jsonOk, f.cookie))
            => /\ DOMAIN sessions' \subseteq DOMAIN sessions
               /\ \A token \in DOMAIN sessions \ {Presented(f)} :
                    Has(sessions', token) /\ sessions'[token] = sessions[token]
      ]_vars

\* the account of the signup holds two sessions: the one of the signup and
\* the one of the login just answered
C33_Witness ==
    /\ resp.op = "login" /\ resp.status = 200
    /\ Has(sessions, 1) /\ Has(sessions, 2)
    /\ sessions[1].userId = sessions[2].userId
    /\ ~SessionExpired(sessions[1])

----------------------------------------------------------------------------
\* C37: only events of the limited kind change a counter.  A step changes
\* the failed-auth counter of an address only if it is a failed login of
\* that address (so a login with the right password, a signup, a logout and
\* a verify leave it as it is, and never reset it); a step changes the upload
\* counter of an address only if it is an upload of that address that is
\* not answered 400, 409, 429 or 500 and has written a metadata record.
C37_OnlyLimitedEventsCount ==
    [][\A ip \in Clients :
         /\ CounterRead(rateLimitKey(ip))' # CounterRead(rateLimitKey(ip))
            => /\ resp'.op = "login" /\ resp'.ip = ip
               /\ resp'.status # 200
               /\ failed' = FailedLogin(ip)
         /\ CounterRead(uploadRateLimitKey(ip))' # CounterRead(uploadRateLimitKey(ip))
            => /\ resp'.op = "upload" /\ resp'.ip = ip
               /\ resp'.status \notin {400, 409, 429, 500}
               /\ \E name \in DOMAIN images' \ DOMAIN images :
                    images'[name].blobKey \in DOMAIN imageData'
      ]_vars

\* a login with the right password was answered 200 after a failed one, and
\* the counter of the address still holds the failed one
C37_Witness ==
    /\ resp.op = "login" /\ resp.status = 200
    /\ Has(failed, resp.ip) /\ failed[resp.ip].n = 1
    /\ CounterRead(rateLimitKey(resp.ip)).count = 1

----------------------------------------------------------------------------
(* SpecKeys: one client address against the two blocking limits, one at a  *)
(* time as in SpecRate, while it also probes for a name that is not stored. *)
(* The clock steps (by a second, or past the not-found window) until the    *)
(* first upload is stored.                                                   *)
NextKeys ==
    \/ \E ip \in Clients : AuthOnly /\ Signup(ip, TRUE, <<"u">>, <<"a">>, secret1)
    \/ \E ip \in Clients, f \in RateLoginForms :
          AuthOnly /\ Login(ip, f.jsonOk, f.email, f.password)
    \/ \E ip \in Clients, name \in FloodNames :
          UploadOnly /\ Upload(ip, TRUE, pngFile, name, TRUE, 0)
    \/ \E ip \in Clients : Fetch(ip, dog, FALSE, FALSE, FALSE, FALSE)
    \/ \E d \in {1, notFoundWindowMs} : AuthOnly /\ Tick(d)

SpecKeys == Init /\ [][NextKeys]_vars

\* the three counters of an address
CountersOf(ip) ==
    [auth |-> CounterRead(rateLimitKey(ip)),
     upload |-> CounterRead(uploadRateLimitKey(ip)),
     notFound |-> CounterRead(notFoundKey(ip))]

\* C34: the three counters of one client address live under distinct keys.
\* A request to the auth handler leaves the upload and not-found counters as
\* they are, an upload leaves the failed-auth and not-found counters, a fetch
\* leaves the failed-auth and upload counters; no fetch is answered 429; and
\* an auth or upload request is answered 429 only when its own counter has
\* reached its limit in an open window, whatever the not-found count is.
C34_CountersIndependent ==
    [][\A ip \in Clients :
         LET before == CountersOf(ip)
             after == CountersOf(ip)'
             handled == now' = now /\ resp'.ip = ip
         IN  /\ Cardinality({rateLimitKey(ip), uploadRateLimitKey(ip), notFoundKey(ip)}) = 3
             /\ (handled /\ resp'.op \in {"signup", "login", "logout", "verify"})
                => /\ after.upload = before.upload /\ after.notFound = before.notFound
                   /\ resp'.status = 429
                      => RateLimitExceeded(rateLimitKey(ip), maxAttempts)
             /\ (handled /\ resp'.op = "upload")
                => /\ after.auth = before.auth /\ after.notFound = before.notFound
                   /\ resp'.status = 429
                      => RateLimitExceeded(uploadRateLimitKey(ip), maxUploads)
             /\ (handled /\ resp'.op = "fetch")
                => /\ after.auth = before.auth /\ after.upload = before.upload
                   /\ resp'.status # 429
      ]_vars

\* a probe for a name not stored is answered 404 and counted while the
\* address is blocked from the auth handler
C34_Witness ==
    /\ resp.op = "fetch" /\ resp.status = 404
    /\ RateLimitExceeded(rateLimitKey(resp.ip), maxAttempts)
    /\ CounterRead(notFoundKey(resp.ip)).count = MaxNotFound

----------------------------------------------------------------------------
(* SpecPart: two signups taken store call by store call, each of which may *)
(* fail at any of its writes, among logins with a known and an unknown     *)
(* email, a right and a wrong password; no time passes.                     *)
NextPart ==
    \/ \E id \in CallIds, ip \in Clients, f \in DupSignupForms :
          Unused(id) /\ SignupCheckEmail(id, ip, f)
    \/ \E id \in CallIds : SignupCheckUsername(id)
    \/ \E id \in CallIds : SignupPutUser(id)
    \/ \E id \in CallIds : SignupPutUsername(id)
    \/ \E id \in CallIds : SignupPutEmail(id)
    \/ \E id \in CallIds : SignupPutSession(id)
    \/ \E id \in CallIds : SignupThrows(id)
    \/ \E ip \in Clients, f \in FaultLoginForms :
          Login(ip, f.jsonOk, f.email, f.password) /\ CountersWithin(MaxCounted)'

SpecPart == Init /\ [][NextPart]_vars

\* every entry of the email index and of the username index names an
\* account record that is stored
IndexesResolve ==
    /\ \A email \in DOMAIN emailIndex : Has(users, emailIndex[email])
    /\ \A username \in DOMAIN usernameIndex : Has(users, usernameIndex[username])

\* C36: in every reachable state, states after a signup that failed part-way
\* included, every email-index and username-index entry refers to an account
\* record that exists; hence every login answered 401 has counted: it has
\* raised the failed-auth counter of its address by one.
C36_IndexEntriesResolve ==
    [][/\ IndexesResolve /\ IndexesResolve'
       /\ \A ip \in Clients :
            (/\ calls' = calls /\ now' = now
             /\ resp'.op = "login" /\ resp'.ip = ip /\ resp'.status = 401)
            => /\ CounterRead(rateLimitKey(ip))'.count
                    = CounterRead(rateLimitKey(ip)).count + 1
               /\ failed' = FailedLogin(ip)
      ]_vars

\* a signup failed at the write of its email index, after the account record
\* and the username index; a login with its email and password was then
\* answered 401 and counted
C36_Witness ==
    /\ resp.op = "login" /\ resp.status = 401
    /\ Has(failed, resp.ip)
    /\ CounterRead(rateLimitKey(resp.ip)).count = 1
    /\ \E id \in CallIds :
         /\ calls[id].op = "signup" /\ calls[id].status = 500
         /\ Has(users, calls[id].user)
         /\ Has(usernameIndex, usernameKey(calls[id].req.username))
         /\ usernameIndex[usernameKey(calls[id].req.username)] = calls[id].user
         /\ ~Has(emailIndex, emailKey(calls[id].req.email))

----------------------------------------------------------------------------
(* SpecLive: two uploads of one name taken store call by store call, the   *)
(* clock, and the scheduled sweep.  An upload that has made its name      *)
(* lookup runs on to its return, and the sweep is run again and again (the *)
(* daily schedule, lines 115-118 of the cleanup handler); no store call    *)
(* fails.  Requests take seconds: the clock steps by the lifetime of an     *)
(* image only while no request is in progress.                              *)
NextLive ==
    \/ \E id \in CallIds, ip \in Clients, f \in DupUploadForms :
          Unused(id) /\ UploadBegin(id, ip, f)
    \/ \E id \in CallIds : UploadCheck(id)
    \/ \E id \in CallIds : UploadPutBlob(id)
    \/ \E id \in CallIds : UploadPutMeta(id)
    \/ \E id \in CallIds : UploadCount(id) /\ CountersWithin(MaxCounted)'
    \/ \E id \in CallIds : UploadPutIndex(id)
    \/ Sweep
    \/ \E d \in {1, imageTtl} : (d = 1 \/ Quiescent) /\ Tick(d)

\* the store writes of the upload of slot id, in the order of the handler
UploadWrites(id) ==
    \/ UploadPutBlob(id)
    \/ UploadPutMeta(id)
    \/ UploadCount(id) /\ CountersWithin(MaxCounted)'
    \/ UploadPutIndex(id)

FairLive ==
    /\ WF_vars(Sweep)
    /\ WF_vars(\E id \in CallIds : UploadWrites(id))

SpecLive == Init /\ [][NextLive]_vars /\ FairLive

\* the index entry written by the upload of slot id
EntryOf(id) ==
    IF calls[id].op = "upload"
       THEN expireKey(calls[id].image.expiresAt, sanitizeName(calls[id].req.name))
    ELSE NoEntry

\* the upload of slot id was answered 201, its index entry is stored and its
\* expiresAt has passed
UploadedAndExpired(id) ==
    /\ calls[id].op = "upload" /\ calls[id].pc = "done" /\ calls[id].status = 201
    /\ calls[id].image.expiresAt # NoExpiry
    /\ calls[id].image.expiresAt < now
    /\ Has(expiration, EntryOf(id))

\* the payload, the metadata record and the index entry of the upload of
\* slot id are all absent
PurgedUpload(id) ==
    /\ ~Has(imageData, calls[id].image.blobKey)
    /\ ~\E name \in DOMAIN images : images[name].blobKey = calls[id].image.blobKey
    /\ ~Has(expiration, EntryOf(id))

\* the index entry of the upload of slot id is stored, due, and names no
\* stored resource
OrphanDue(id) ==
    /\ calls[id].op = "upload" /\ calls[id].pc = "done"
    /\ Has(expiration, EntryOf(id))
    /\ IsDue(EntryOf(id))
    /\ ~Has(images, entryName(EntryOf(id)))

\* C35: with the sweep run again and again and no store call failing, every
\* ephemeral resource that has an index entry is purged some time after its
\* expiresAt has passed (payload, metadata record and index entry are all
\* absent), and every orphan index entry is removed once it is due.
C35_EventuallyPurged ==
    \A id \in CallIds :
       /\ UploadedAndExpired(id) ~> PurgedUpload(id)
       /\ OrphanDue(id) ~> ~Has(expiration, EntryOf(id))

====
